---- MODULE Spec2Model ----
(***************************************************************************)
(* Detection-and-fan-out pipeline of the Telegram gift monitor:            *)
(* TelegramMonitor.process_message and _send_notifications, the two        *)
(* Database back ends (docker adapter, asyncpg pool), the Redis dedup      *)
(* cache, the push service and the licence columns the recipient query     *)
(* reads.                                                                  *)
(*                                                                         *)
(* Strings the code manipulates (handles, chat ids rendered with str())    *)
(* are sequences of one-character strings, so that replace('@', '') and    *)
(* str(id) are computed.  Message texts are sequences of word tokens.      *)
(***************************************************************************)
EXTENDS Integers, Sequences, FiniteSets, TLC

\* ------------------------------------------------------------------ bounds
MaxInv == 2          \* messages the source delivers in one behaviour
MaxUsers == 2        \* rows of the users table
MaxFaults == 1       \* calls that fail in one behaviour
TickStep == 1800     \* seconds the clock advances in one step
MaxFragments == 3        \* pieces of text in one message given to detect_gift
MaxClock == 3700     \* last instant the clock reaches
MaxChunks == 2       \* full gateway batches in the token list of one send_to_tokens call
MaxDuplicates == 1   \* tokens that occur twice in that list

\* ------------------------------------------------------- program constants
DEDUP_TTL == 3600    \* setex(message_key, 3600, "1")
BATCH_SIZE == 500    \* batch_size = 500 in send_to_tokens

Inv == 1..MaxInv
Users == 1..MaxUsers

\* ------------------------------------------------------------ Python values
\* None, where a string is expected (a one-element sequence that is no character).
NoneStr == <<"<None>">>
\* None, where an integer is expected (notification ids start at 1).
NoneId == 0

Digits == <<"0", "1", "2", "3", "4", "5", "6", "7", "8", "9">>

\* str(n) for n >= 0.
RECURSIVE str(_)
str(n) == IF n < 10 THEN <<Digits[n + 1]>> ELSE str(n \div 10) \o <<Digits[(n % 10) + 1]>>

\* s.replace('@', '')
RECURSIVE replace_at(_)
replace_at(s) ==
    IF s = <<>> THEN <<>>
    ELSE IF Head(s) = "@" THEN replace_at(Tail(s))
    ELSE <<Head(s)>> \o replace_at(Tail(s))

\* Characters are one-character strings; a character outside ASCII is written
\* by its code point, "U+1F381".
LowerCase == <<"a", "b", "c", "d", "e", "f", "g", "h", "i", "j", "k", "l", "m", "n", "o", "p", "q", "r", "s", "t", "u", "v", "w", "x", "y", "z">>
UpperCase == <<"A", "B", "C", "D", "E", "F", "G", "H", "I", "J", "K", "L", "M", "N", "O", "P", "Q", "R", "S", "T", "U", "V", "W", "X", "Y", "Z">>
DigitSet == {Digits[k] : k \in 1..Len(Digits)}

\* c.lower() for one character.
LowerChar(c) ==
    IF \E k \in 1..Len(UpperCase) : UpperCase[k] = c
    THEN LowerCase[CHOOSE k \in 1..Len(UpperCase) : UpperCase[k] = c]
    ELSE c

\* s.lower()
lower_keeps_case(s) == s
lower(s) == [k \in 1..Len(s) |-> LowerChar(s[k])]

\* p in s, for a non-empty p
contains(s, p) == \E k \in 0..(Len(s) - Len(p)) : SubSeq(s, k + 1, k + Len(p)) = p

\* int(s) for a run of decimal digits.
DigitValue(c) == CHOOSE d \in 0..9 : Digits[d + 1] = c
RECURSIVE int(_)
int(s) == IF s = <<>> THEN 0 ELSE 10 * int(SubSeq(s, 1, Len(s) - 1)) + DigitValue(s[Len(s)])

\* Regular-expression classes \d, \s and \w over the model's alphabet.
IsDigit(c) == c \in DigitSet
IsSpace(c) == c = " "
IsWordChar(c) ==
    \/ IsDigit(c)
    \/ c = "_"
    \/ \E k \in 1..Len(LowerCase) : c = LowerCase[k] \/ c = UpperCase[k]

\* The pyrogram chat filter compares c.lower().strip("@").
RECURSIVE strip_at_front(_)
strip_at_front(s) ==
    IF s # <<>> /\ Head(s) = "@" THEN strip_at_front(Tail(s)) ELSE s
filter_name(s) == strip_at_front([k \in 1..Len(s) |-> LowerChar(s[k])])

\* ------------------------------------------------------------------ inputs
\* Source chats: (1, "a") a public channel; (1, "b") the same chat after its
\* handle changed; (2, None) a channel without a handle; (3, "x") a chat nobody
\* registered.
Chats ==
    { [id |-> 1, username |-> <<"a">>],
      [id |-> 1, username |-> <<"b">>],
      [id |-> 2, username |-> NoneStr],
      [id |-> 3, username |-> <<"x">>] }

ChatIds == {c.id : c \in Chats}
MsgId == 7

\* Message texts, as sequences of characters.
Surrogate == "<lone surrogate>"
LongNumber == <<"1", "2", "3", "4", "5", "6", "7", "8", "9", "0">>
TextHello == <<"h", "e", "l", "l", "o">>
TextGiftAlert == <<"U+1F381", " ", "N", "e", "w", " ", "g", "i", "f", "t", "!", " ", "P", "r", "i", "c", "e", ":", " ", "5", ",", "0", "0", "0", " ", "U+2B50", "U+FE0F", " ", "A", "v", "a", "i", "l", "a", "b", "l", "e", ":", " ", "8", "%">>
TextGiftSurrogate == <<"g", "i", "f", "t", " ">> \o <<Surrogate>>
Texts == { TextHello, TextGiftAlert, TextGiftSurrogate }

\* --------------------------------------------------------------- registry
Channel(tid, name) == [telegram_id |-> tid, username |-> name]

\* monitored_channels as loaded at start-up.
RegistryAt == << Channel(1, <<"@", "a">>), Channel(2, <<"@", "c">>) >>
RegistryPlain == << Channel(1, <<"a">>) >>
RegistryNullHandle == << Channel(2, NoneStr), Channel(1, <<"@", "a">>) >>

\* get_monitored_chat_ids: the handles and the ids of the registered channels.
get_monitored_chat_ids(chs) ==
    [ids |-> {chs[k].telegram_id : k \in 1..Len(chs)},
     names |-> {chs[k].username : k \in 1..Len(chs)}]

\* filters.chat(chat_ids) applied to a message: by id, or by lower-cased handle.
chat_filter(chat_ids, chat) ==
    \/ chat.id \in chat_ids.ids
    \/ /\ chat.username # NoneStr
       /\ filter_name(chat.username) \in {filter_name(n) : n \in chat_ids.names \ {NoneStr}}

\* channel_username = message.chat.username or str(message.chat.id)
channel_username_of(chat) ==
    IF chat.username = NoneStr \/ chat.username = <<>> THEN str(chat.id) ELSE chat.username

\* _is_monitored_channel: walks the list in order; a channel row whose username
\* is None raises AttributeError at .replace before any later row is looked at.
RECURSIVE is_monitored_from(_, _, _)
is_monitored_from(chs, name, k) ==
    IF k > Len(chs) THEN "False"
    ELSE IF chs[k].username = NoneStr THEN "AttributeError"
    ELSE IF \/ replace_at(chs[k].username) = replace_at(name)
            \/ str(chs[k].telegram_id) = name
         THEN "True"
    ELSE is_monitored_from(chs, name, k + 1)

is_monitored_channel(chs, name) == is_monitored_from(chs, name, 1)

\* ---------------------------------------------------------------- detector
\* self.gift_keywords
gift_keywords ==
    { <<"g", "i", "f", "t">>,
      <<"g", "i", "f", "t", "s">>,
      <<"n", "e", "w", " ", "g", "i", "f", "t">>,
      <<"a", "p", "p", "e", "a", "r", "e", "d">>,
      <<"l", "i", "m", "i", "t", "e", "d">>,
      <<"r", "a", "r", "e">>,
      <<"e", "x", "c", "l", "u", "s", "i", "v", "e">>,
      <<"s", "p", "e", "c", "i", "a", "l">>,
      <<"u", "n", "i", "q", "u", "e">>,
      <<"p", "r", "e", "m", "i", "u", "m">>,
      <<"v", "i", "p">>,
      <<"U+043F", "U+043E", "U+0434", "U+0430", "U+0440", "U+043E", "U+043A">>,
      <<"U+043F", "U+043E", "U+0434", "U+0430", "U+0440", "U+043A", "U+0438">>,
      <<"U+043D", "U+043E", "U+0432", "U+044B", "U+0439", " ", "U+043F", "U+043E", "U+0434", "U+0430", "U+0440", "U+043E", "U+043A">>,
      <<"U+043F", "U+043E", "U+044F", "U+0432", "U+0438", "U+043B", "U+0441", "U+044F">>,
      <<"U+0440", "U+0435", "U+0434", "U+043A", "U+0438", "U+0439">>,
      <<"U+044D", "U+043A", "U+0441", "U+043A", "U+043B", "U+044E", "U+0437", "U+0438", "U+0432">>,
      <<"U+043E", "U+0441", "U+043E", "U+0431", "U+044B", "U+0439">>,
      <<"U+0443", "U+043D", "U+0438", "U+043A", "U+0430", "U+043B", "U+044C", "U+043D", "U+044B", "U+0439">>,
      <<"U+043F", "U+0440", "U+0435", "U+043C", "U+0438", "U+0443", "U+043C">>,
      <<"U+0432", "U+0438", "U+043F">>,
      <<"U+1F381">>,
      <<"U+1F380">>,
      <<"U+1F48E">>,
      <<"U+1F3AF">>,
      <<"U+1F31F">>,
      <<"U+2B50">>,
      <<"U+1F525">>,
      <<"U+1F4B0">>,
      <<"U+1F3C6">> }

\* self.limited_keywords
limited_keywords ==
    { <<"l", "i", "m", "i", "t", "e", "d">>,
      <<"r", "a", "r", "e">>,
      <<"e", "x", "c", "l", "u", "s", "i", "v", "e">>,
      <<"s", "p", "e", "c", "i", "a", "l">>,
      <<"u", "n", "i", "q", "u", "e">>,
      <<"v", "i", "p">>,
      <<"U+043B", "U+0438", "U+043C", "U+0438", "U+0442">>,
      <<"U+0440", "U+0435", "U+0434", "U+043A", "U+0438", "U+0439">>,
      <<"U+044D", "U+043A", "U+0441", "U+043A", "U+043B", "U+044E", "U+0437", "U+0438", "U+0432">>,
      <<"U+043E", "U+0441", "U+043E", "U+0431", "U+044B", "U+0439">>,
      <<"U+0443", "U+043D", "U+0438", "U+043A", "U+0430", "U+043B", "U+044C", "U+043D", "U+044B", "U+0439">>,
      <<"U+0432", "U+0438", "U+043F">>,
      <<"U+1F525">>,
      <<"U+26A1">>,
      <<"U+1F48E">> }

\* sold_out_keywords of _is_sold_out
sold_out_keywords ==
    { <<"s", "o", "l", "d", " ", "o", "u", "t">>,
      <<"U+0440", "U+0430", "U+0441", "U+043F", "U+0440", "U+043E", "U+0434", "U+0430", "U+043D">>,
      <<"U+0437", "U+0430", "U+043A", "U+043E", "U+043D", "U+0447", "U+0438", "U+043B", "U+0441", "U+044F">>,
      <<"U+043D", "U+0435", "U+0442", " ", "U+0432", " ", "U+043D", "U+0430", "U+043B", "U+0438", "U+0447", "U+0438", "U+0438">>,
      <<"U+043D", "U+0435", "U+0434", "U+043E", "U+0441", "U+0442", "U+0443", "U+043F", "U+0435", "U+043D">>,
      <<"u", "n", "a", "v", "a", "i", "l", "a", "b", "l", "e">>,
      <<"0", "%">>,
      <<"e", "n", "d", "e", "d">> }

\* any(keyword in text_lower for keyword in ...)
any_keyword_in(keywords, text_lower) == \E kw \in keywords : contains(text_lower, kw)

has_gift_keyword(text_lower) == any_keyword_in(gift_keywords, text_lower)
is_limited_gift(text_lower) == any_keyword_in(limited_keywords, text_lower)
is_sold_out(text_lower) == any_keyword_in(sold_out_keywords, text_lower)

\* Last position of the run of digits that holds position k.
RECURSIVE run_end(_, _)
run_end(s, k) == IF k < Len(s) /\ IsDigit(s[k + 1]) THEN run_end(s, k + 1) ELSE k

\* First position from k on that holds no white space (Len(s) + 1: none).
RECURSIVE skip_spaces(_, _)
skip_spaces(s, k) == IF k <= Len(s) /\ IsSpace(s[k]) THEN skip_spaces(s, k + 1) ELSE k

Min(S) == CHOOSE x \in S : \A y \in S : x <= y

\* re.findall(r'\b(\d{10,20})\b', text): the starts of the maximal digit runs
\* of 10 to 20 digits that have no word character on either side.
long_number_starts(text) ==
    {k \in 1..Len(text) :
        /\ IsDigit(text[k])
        /\ (k = 1 \/ ~IsWordChar(text[k - 1]))
        /\ run_end(text, k) - k + 1 \in 10..20
        /\ (run_end(text, k) = Len(text) \/ ~IsWordChar(text[run_end(text, k) + 1]))}

long_numbers(text) ==
    IF long_number_starts(text) = {} THEN <<>>
    ELSE LET k == Min(long_number_starts(text)) IN <<SubSeq(text, k, run_end(text, k))>>

\* The identifier built from the clock and an md5 digest of the text.
FallbackId == <<"<timestamp+md5>">>

generate_gift_id_from_clock(text) == [kind |-> "id", id |-> FallbackId]

\* _generate_gift_id: the first long digit run, else a timestamp + md5 id, for
\* which text.encode() raises on a lone surrogate.
generate_gift_id(text) ==
    IF long_numbers(text) # <<>> THEN [kind |-> "id", id |-> long_numbers(text)[1]]
    ELSE IF \E k \in 1..Len(text) : text[k] = Surrogate
         THEN [kind |-> "UnicodeEncodeError", id |-> <<>>]
    ELSE [kind |-> "id", id |-> FallbackId]

\* re.search(r'(\d+)\s*%', text): the starts at which the pattern matches.
percent_starts(text) ==
    {k \in 1..Len(text) :
        /\ IsDigit(text[k])
        /\ LET p == skip_spaces(text, run_end(text, k) + 1)
           IN  p <= Len(text) /\ text[p] = "%"}

\* re.search(r'(\d+)\s*/\s*(\d+)', text): the starts at which it matches.
slash_after(text, k) == skip_spaces(text, run_end(text, k) + 1)
denominator_at(text, k) == skip_spaces(text, slash_after(text, k) + 1)
fraction_starts(text) ==
    {k \in 1..Len(text) :
        /\ IsDigit(text[k])
        /\ slash_after(text, k) <= Len(text)
        /\ text[slash_after(text, k)] = "/"
        /\ denominator_at(text, k) <= Len(text)
        /\ IsDigit(text[denominator_at(text, k)])}

\* int(x) of a quotient: the fraction is cut off, towards zero.
int_div(a, b) == IF a >= 0 THEN a \div b ELSE -((-a) \div b)

\* int((available / total) * 100)
percent_of(available, total) == int_div(available * 100, total)

\* _extract_availability.  A key the dict does not hold is marked absent by
\* its has_ flag; is_sold_out is the key the percentage branch may add.
extract_availability(text) ==
    LET pm == percent_starts(text)
        fm == fraction_starts(text)
        percent == IF pm = {} THEN 0
                   ELSE int(SubSeq(text, Min(pm), run_end(text, Min(pm))))
        fk == IF fm = {} THEN 0 ELSE Min(fm)
        current == IF fm = {} THEN 0 ELSE int(SubSeq(text, fk, run_end(text, fk)))
        total == IF fm = {} THEN 0
                 ELSE int(SubSeq(text, denominator_at(text, fk),
                                 run_end(text, denominator_at(text, fk))))
    IN  [ has_available_percent |-> pm # {} \/ (fm # {} /\ total > 0),
          available_percent |-> IF fm # {} /\ total > 0 THEN percent_of(total - current, total)
                                ELSE percent,
          has_fraction |-> fm # {},
          available |-> total - current,
          total |-> total,
          is_sold_out |-> pm # {} /\ percent = 0 ]

\* _calculate_urgency, in tenths: 3 stands for 0.3 and 10 for 1.0; a sum of
\* tenths stands for the double the same additions give in the same order
\* (9 for 0.3 + 0.3 + 0.3, which is the double 0.8999999999999999).
urgency_tier_adds_up(percent) ==
    (IF percent < 10 THEN 4 ELSE 0) + (IF percent < 25 THEN 3 ELSE 0)
        + (IF percent < 50 THEN 2 ELSE 0)

urgency_tier(percent) ==
    IF percent < 10 THEN 4 ELSE IF percent < 25 THEN 3 ELSE IF percent < 50 THEN 2 ELSE 0

min_of(a, b) == IF a <= b THEN a ELSE b

calculate_urgency_no_short_circuit(sold_out, limited, has_percent, percent) ==
    min_of((3 + (IF limited THEN 3 ELSE 0)) + (IF has_percent THEN urgency_tier(percent) ELSE 0),
           10)

calculate_urgency(sold_out, limited, has_percent, percent) ==
    IF sold_out THEN 0
    ELSE min_of((3 + (IF limited THEN 3 ELSE 0)) + (IF has_percent THEN urgency_tier(percent) ELSE 0),
                10)

\* What detect_gift returns or raises; kind "None" stands for the value None.
NoEvent(kind) ==
    [ kind |-> kind, id |-> <<>>, is_limited |-> FALSE, is_sold_out |-> FALSE,
      has_available_percent |-> FALSE, available_percent |-> 0, has_fraction |-> FALSE,
      available |-> 0, total |-> 0, urgency_score |-> 0 ]

\* detect_gift: None for an empty text or a text without gift keyword.
detect_gift(text) ==
    IF text = <<>> THEN NoEvent("None")
    ELSE IF ~has_gift_keyword(lower(text)) THEN NoEvent("None")
    ELSE IF generate_gift_id(text).kind = "UnicodeEncodeError"
         THEN NoEvent("UnicodeEncodeError")
    ELSE LET av == extract_availability(text)
             sold_out == is_sold_out(lower(text)) \/ av.is_sold_out
             limited == is_limited_gift(lower(text))
         IN  [ kind |-> "gift",
               id |-> generate_gift_id(text).id,
               is_limited |-> limited,
               is_sold_out |-> sold_out,
               has_available_percent |-> av.has_available_percent,
               available_percent |-> av.available_percent,
               has_fraction |-> av.has_fraction,
               available |-> av.available,
               total |-> av.total,
               urgency_score |-> calculate_urgency(sold_out, limited,
                                                   av.has_available_percent,
                                                   av.available_percent) ]

\* ------------------------------------------------- price, emoji, description
\* price_indicators of _guess_price and gift_emojis of _extract_emoji, in the
\* order of the lists.
price_indicators ==
    << <<"U+2B50">>,
       <<"U+1F31F">>,
       <<"p", "r", "i", "c", "e">>,
       <<"U+0446", "U+0435", "U+043D", "U+0430">>,
       <<"U+0441", "U+0442", "U+043E", "U+0438", "U+043C", "U+043E", "U+0441", "U+0442", "U+044C">>,
       <<"c", "o", "s", "t">>,
       <<"$">>,
       <<"U+20BD">> >>
gift_emojis ==
    << "U+1F381", "U+1F380", "U+1F48E", "U+1F3AF", "U+1F31F", "U+2B50", "U+1F525", "U+1F4B0", "U+1F3C6" >>

\* Last position of the match of \d+(?:,\d+)* that starts at the digit at k.
RECURSIVE number_end(_, _)
number_end(s, k) ==
    LET e == run_end(s, k)
    IN  IF e + 2 <= Len(s) /\ s[e + 1] = "," /\ IsDigit(s[e + 2])
        THEN number_end(s, e + 2) ELSE e

\* The indicator stands at position k of the text, whatever the case.
indicator_at(text, ind, k) ==
    /\ k >= 1
    /\ k + Len(ind) - 1 <= Len(text)
    /\ lower(SubSeq(text, k, k + Len(ind) - 1)) = ind

\* (\d+(?:,\d+)*)\s*indicator matches from k.
number_then_indicator(text, ind, k) ==
    /\ IsDigit(text[k])
    /\ indicator_at(text, ind, skip_spaces(text, number_end(text, k) + 1))

\* indicator\s*(\d+(?:,\d+)*) matches from k.
indicator_then_number(text, ind, k) ==
    /\ indicator_at(text, ind, k)
    /\ LET j == skip_spaces(text, k + Len(ind)) IN j <= Len(text) /\ IsDigit(text[j])

\* re.search of both alternatives: match.group(1) or match.group(2) of the
\* leftmost match, <<>> when there is none.
price_near(text, ind) ==
    LET starts == {k \in 1..Len(text) :
                      number_then_indicator(text, ind, k) \/ indicator_then_number(text, ind, k)}
    IN  IF starts = {} THEN <<>>
        ELSE LET k == Min(starts)
                 j == skip_spaces(text, k + Len(ind))
             IN  IF number_then_indicator(text, ind, k)
                 THEN SubSeq(text, k, number_end(text, k))
                 ELSE SubSeq(text, j, number_end(text, j))

\* Last position of the match of \d{1,3}(?:,\d{3})* that starts at the digit at k.
RECURSIVE grouped_end(_, _)
grouped_end(s, e) ==
    IF e + 4 <= Len(s) /\ s[e + 1] = "," /\ \A d \in 2..4 : IsDigit(s[e + d])
    THEN grouped_end(s, e + 4) ELSE e
comma_number_end(s, k) == grouped_end(s, min_of(run_end(s, k), k + 2))

\* re.findall(r'(\d{1,3}(?:,\d{3})*)', text) from position k on, the matches
\* without a comma left out.
RECURSIVE numbers_with_commas(_, _)
numbers_with_commas(text, k) ==
    IF k > Len(text) THEN <<>>
    ELSE IF ~IsDigit(text[k]) THEN numbers_with_commas(text, k + 1)
    ELSE LET e == comma_number_end(text, k)
             found == SubSeq(text, k, e)
         IN  (IF \E j \in 1..Len(found) : found[j] = "," THEN <<found>> ELSE <<>>)
                \o numbers_with_commas(text, e + 1)

\* int(x.replace(',', ''))
without_commas(x) == SelectSeq(x, IsDigit)

\* max(numbers, key=...): the first of the largest.
max_by_value(numbers) ==
    numbers[Min({k \in 1..Len(numbers) :
                    \A j \in 1..Len(numbers) :
                        int(without_commas(numbers[j])) <= int(without_commas(numbers[k]))})]

\* _guess_price: the number next to the first indicator that has one, else
\* the largest number with commas, else None (<<>>).
guess_price(text) ==
    LET hits == {n \in 1..Len(price_indicators) : price_near(text, price_indicators[n]) # <<>>}
    IN  IF hits # {} THEN price_near(text, price_indicators[Min(hits)])
        ELSE IF numbers_with_commas(text, 1) # <<>>
             THEN max_by_value(numbers_with_commas(text, 1))
        ELSE <<>>

\* _extract_emoji: the first emoji of the list that the text holds, else the
\* first of the list.
extract_emoji(text) ==
    LET hits == {n \in 1..Len(gift_emojis) : contains(text, <<gift_emojis[n]>>)}
    IN  IF hits # {} THEN gift_emojis[Min(hits)] ELSE gift_emojis[1]

\* text[:100] + '...' if len(text) > 100 else text
DESCRIPTION_LENGTH == 100
description(text) ==
    IF Len(text) > DESCRIPTION_LENGTH
    THEN SubSeq(text, 1, DESCRIPTION_LENGTH) \o <<".", ".", ".">>
    ELSE text

\* The dict detect_gift returns for a call at the instant at: the fields of
\* detect_gift(text), with the clock reading that detected_at and the fallback
\* identifier hold (-1: the identifier holds none), price, emoji and
\* description.
gift_data(text, at) ==
    LET g == detect_gift(text)
    IN  [ kind |-> g.kind,
          id |-> g.id,
          id_timestamp |-> IF g.kind = "gift" /\ g.id = FallbackId THEN at ELSE -1,
          detected_at |-> IF g.kind = "gift" THEN at ELSE -1,
          is_limited |-> g.is_limited,
          is_sold_out |-> g.is_sold_out,
          has_available_percent |-> g.has_available_percent,
          available_percent |-> g.available_percent,
          has_fraction |-> g.has_fraction,
          available |-> g.available,
          total |-> g.total,
          urgency_score |-> g.urgency_score,
          price |-> IF g.kind = "gift" THEN guess_price(text) ELSE <<>>,
          emoji |-> IF g.kind = "gift" THEN extract_emoji(text) ELSE "",
          description |-> IF g.kind = "gift" THEN description(text) ELSE <<>> ]

\* ------------------------------------------------------------------- state
VARIABLES
    backend,             \* which Database class is bound: "docker" or "asyncpg"
    redis,               \* self.redis is not None
    pool,                \* self.db.pool is truthy
    push_initialized,    \* self.push_service.initialized
    workers,             \* handler workers of the client: invocations in flight at once
    quota,               \* messages the source delivers in this behaviour
    fault_budget,        \* calls the environment lets fail in this behaviour
    faults,              \* calls that have failed so far
    monitored_channels,  \* self.monitored_channels
    handler_chats,       \* the chat list the message handler was registered with
    now,                 \* wall clock, seconds
    cache,               \* Redis: message key -> instant its mark expires (0: no mark)
    channels,            \* table channels: telegram_id -> row
    notifications,       \* table notifications
    deliveries,          \* table notification_deliveries
    has_valid_license,   \* users.has_valid_license
    is_banned,           \* users.is_banned
    is_muted,            \* user_subscriptions.is_muted
    subscribed,          \* user_subscriptions: user -> telegram_id of the channel row (0: none)
    devices,             \* user_devices: user -> number of active rows with an fcm_token
    licenses,            \* table licenses: one row per key
    pc,                  \* where each invocation of process_message stands
    msg,                 \* its message
    stages,              \* the external calls it has made, in order
    raised,              \* the calls of it that raised
    returned,            \* "running", "normal", or "raised" (exception left process_message)
    outcome,             \* terminal state of the message
    notification_id,     \* what save_notification returned to it
    active_users,        \* its resolved recipient list
    idx,                 \* position in the recipient loop
    visited,             \* per recipient it processed: token lookup, send, delivery log
    doneBefore,          \* invocations that had returned when it was delivered
    existsAt,            \* instant of its redis.exists call (-1: none)
    markExpiry,          \* expiry its redis.setex wrote (0: none)
    eligibleAtResolve,   \* users entitled to the event when it resolved recipients
    debug_log,           \* chats seen by debug_all_messages, with the gate's answer
    in_call,             \* invocation inside a synchronous call that holds the event loop (0: none)
    detect_call,         \* the last call of detect_gift made on its own: text and result
    send_call,           \* a call of send_to_tokens made on its own: its progress
    start_call,          \* initialize() and start() of the monitor: their progress
    detect_calls,        \* calls of detect_gift on one text at the clock's instants: their results
    registry_calls,      \* the calls of add_channel and remove_channel made so far, with their results
    license_calls        \* per user, the call of LicenseService.activate_license under way

vars ==
    << backend, redis, pool, push_initialized, workers, monitored_channels,
       handler_chats, now, cache, channels, notifications, deliveries,
       has_valid_license, is_banned, is_muted, subscribed, devices, licenses,
       pc, msg, stages, raised, returned, outcome, notification_id, active_users,
       idx, visited, doneBefore, existsAt, markExpiry, eligibleAtResolve,
       debug_log, quota, fault_budget, faults, in_call, detect_call, send_call,
       start_call, detect_calls, registry_calls, license_calls >>

envVars == << backend, redis, pool, push_initialized, workers, monitored_channels,
              handler_chats, quota, fault_budget >>
userVars == << has_valid_license, is_banned, is_muted, subscribed, devices, licenses >>
dbVars == << channels, notifications, deliveries >>
callVars == << detect_call, send_call, start_call, detect_calls, registry_calls, license_calls >>

\* Every variable but those of the calls made on their own.
monitorVars ==
    << envVars, userVars, dbVars, now, cache, pc, msg, stages, raised, returned, outcome,
       notification_id, active_users, idx, visited, doneBefore, existsAt, markExpiry,
       eligibleAtResolve, debug_log, faults, in_call >>

Keys == ChatIds \X {MsgId}
message_key(m) == << m.chat.id, m.id >>

NoMsg == [chat |-> [id |-> 0, username |-> NoneStr], id |-> 0, text |-> <<>>]

\* No call of detect_gift, or of send_to_tokens, made on its own yet.
NoDetectCall == [text |-> <<>>, result |-> NoEvent("not called")]
NoSendCall == [pc |-> "idle"]
NoLicenseCall == [pc |-> "idle", key |-> 0, success |-> FALSE]
NoStartCall == [pc |-> "constructed"]
NoDetectCalls == [text |-> <<>>, results |-> <<>>]

LicenseKeys == Users
NoLicense == [user_id |-> 0, expires_at |-> 0, revoked |-> FALSE]

\* Rows of table channels for a registry that was loaded from, or written
\* back to, the store.
channel_rows(chs) ==
    [t \in ChatIds |->
        IF \E k \in 1..Len(chs) : chs[k].telegram_id = t
        THEN [present |-> TRUE,
              username |-> (CHOOSE c \in {chs[k] : k \in 1..Len(chs)} : c.telegram_id = t).username,
              total |-> 0, is_active |-> TRUE]
        ELSE [present |-> FALSE, username |-> NoneStr, total |-> 0, is_active |-> FALSE]]

\* State after TelegramMonitor.initialize and start, for the given outcomes of
\* the connection attempts and contents of the store.
\* `licensed`: every user activated a licence of their own before start-up.
InitWith(backends, redisVals, poolVals, pushVals, workerVals, registries, licensed, bannedVals, mutedVals, deviceVals, messages, failures) ==
    /\ backend \in backends
    /\ redis \in redisVals
    /\ pool \in poolVals
    /\ push_initialized \in pushVals
    /\ workers \in workerVals
    /\ monitored_channels \in registries
    /\ (monitored_channels = RegistryNullHandle => backend = "asyncpg")
    /\ handler_chats = get_monitored_chat_ids(monitored_channels)
    /\ now = 0
    /\ cache = [k \in Keys |-> 0]
    /\ channels = channel_rows(monitored_channels)
    /\ notifications = {}
    /\ deliveries = {}
    /\ has_valid_license = [u \in Users |-> licensed]
    /\ is_banned \in bannedVals
    /\ is_muted \in mutedVals
    /\ subscribed = [u \in Users |-> 1]
    /\ devices \in deviceVals
    /\ licenses = [k \in LicenseKeys |->
                      IF licensed
                      THEN [user_id |-> k, expires_at |-> MaxClock + TickStep,
                            revoked |-> FALSE]
                      ELSE NoLicense]
    /\ pc = [i \in Inv |-> "idle"]
    /\ msg = [i \in Inv |-> NoMsg]
    /\ stages = [i \in Inv |-> <<>>]
    /\ raised = [i \in Inv |-> {}]
    /\ returned = [i \in Inv |-> "running"]
    /\ outcome = [i \in Inv |-> "RECEIVED"]
    /\ notification_id = [i \in Inv |-> NoneId]
    /\ active_users = [i \in Inv |-> <<>>]
    /\ idx = [i \in Inv |-> 0]
    /\ visited = [i \in Inv |-> <<>>]
    /\ doneBefore = [i \in Inv |-> {}]
    /\ existsAt = [i \in Inv |-> -1]
    /\ markExpiry = [i \in Inv |-> 0]
    /\ eligibleAtResolve = [i \in Inv |-> {}]
    /\ debug_log = {}
    /\ quota = messages
    /\ fault_budget = failures
    /\ faults = 0
    /\ in_call = 0
    /\ detect_call = NoDetectCall
    /\ send_call = NoSendCall
    /\ start_call = NoStartCall
    /\ detect_calls = NoDetectCalls
    /\ registry_calls = <<>>
    /\ license_calls = [u \in Users |-> NoLicenseCall]

\* ------------------------------------------------------------------- faults
\* Whether one more call may fail, and the count of those that did.
FaultChoices == IF faults < fault_budget THEN BOOLEAN ELSE {FALSE}
Fault(failed) == faults' = faults + (IF failed THEN 1 ELSE 0)

\* ------------------------------------------------------- exception handling
\* Where control goes when a call made by process_message raises: to the
\* statement after the nearest enclosing except clause.
\*   exists, setex  -> lines 219-220 log a warning; detection follows
\*   gate, detect   -> lines 261-262 log; process_message returns
\*   save           -> lines 254-255 log; process_message returns
\*   resolve        -> lines 338-339 log; _send_notifications returns, statistics follow
\*   tokens, log    -> lines 333-334 log; the loop takes the next recipient
\*   stats          -> lines 358-359 log; _update_statistics returns
on_exception_no_outer_try(call) ==
    CASE call \in {"exists", "setex"} -> "detect"
      [] call \in {"gate", "detect"}  -> "escape"
      [] call = "save"                -> "return"
      [] call = "resolve"             -> "stats"
      [] call \in {"tokens", "log"}   -> "next_user"
      [] call = "stats"               -> "return"
      [] OTHER                        -> "escape"

on_exception_loop_aborts(call) ==
    CASE call \in {"exists", "setex"} -> "detect"
      [] call \in {"gate", "detect"}  -> "return"
      [] call = "save"                -> "return"
      [] call = "resolve"             -> "stats"
      [] call \in {"tokens", "log"}   -> "stats"
      [] call = "stats"               -> "return"
      [] OTHER                        -> "escape"

on_exception_redis_fatal(call) ==
    CASE call \in {"exists", "setex"} -> "return"
      [] call \in {"gate", "detect"}  -> "return"
      [] call = "save"                -> "return"
      [] call = "resolve"             -> "stats"
      [] call \in {"tokens", "log"}   -> "next_user"
      [] call = "stats"               -> "return"
      [] OTHER                        -> "escape"

on_exception_retries_save(call) ==
    CASE call \in {"exists", "setex"} -> "detect"
      [] call \in {"gate", "detect"}  -> "return"
      [] call = "save"                -> "save"
      [] call = "resolve"             -> "stats"
      [] call \in {"tokens", "log"}   -> "next_user"
      [] call = "stats"               -> "return"
      [] OTHER                        -> "escape"

on_exception(call) ==
    CASE call \in {"exists", "setex"} -> "detect"
      [] call \in {"gate", "detect"}  -> "return"
      [] call = "save"                -> "return"
      [] call = "resolve"             -> "stats"
      [] call \in {"tokens", "log"}   -> "next_user"
      [] call = "stats"               -> "return"
      [] OTHER                        -> "escape"

\* The invocation moves to `target`; "return" and "escape" end it.
Goto(i, target, oc) ==
    /\ pc' = [pc EXCEPT ![i] = IF target \in {"return", "escape"} THEN "done" ELSE target]
    /\ returned' = [returned EXCEPT ![i] =
            IF target = "return" THEN "normal"
            ELSE IF target = "escape" THEN "raised" ELSE @]
    /\ outcome' = [outcome EXCEPT ![i] = oc]

Called(i, call) == stages' = [stages EXCEPT ![i] = Append(@, call)]
Raised(i, call) == raised' = [raised EXCEPT ![i] = @ \cup {call}]

\* ---------------------------------------------------------------- event loop
\* Handlers are coroutines of one event loop: while an invocation is inside a
\* synchronous call no other coroutine runs.  A step of invocation i needs the
\* loop, and ends the synchronous call i was in.
Runs(i) == in_call \in {0, i} /\ in_call' = 0
LoopFree == in_call = 0 /\ UNCHANGED in_call

\* ------------------------------------------------------------ message source
InFlight == {j \in Inv : pc[j] \notin {"idle", "done"}}

\* message_handler: the client hands a message that passes the chat filter to
\* process_message, as long as a handler worker is free.
Deliver(i) ==
    /\ pc[i] = "idle"
    /\ LoopFree
    /\ i <= quota
    /\ \A j \in Inv : j < i => pc[j] # "idle"
    /\ Cardinality(InFlight) < workers
    /\ \E c \in Chats, t \in Texts :
          /\ chat_filter(handler_chats, c)
          /\ msg' = [msg EXCEPT ![i] = [chat |-> c, id |-> MsgId, text |-> t]]
    /\ pc' = [pc EXCEPT ![i] = "gate"]
    /\ doneBefore' = [doneBefore EXCEPT ![i] = {j \in Inv : pc[j] = "done"}]
    /\ UNCHANGED << envVars, callVars, userVars, dbVars, now, cache, stages, raised, returned,
                    outcome, notification_id, active_users, idx, visited, existsAt,
                    markExpiry, eligibleAtResolve, debug_log, faults >>

\* debug_all_messages: runs for the messages the first handler's filter rejects.
DebugAllMessages ==
    /\ LoopFree
    /\ \E c \in Chats :
          /\ ~chat_filter(handler_chats, c)
          /\ debug_log' = debug_log \cup
                { [chat |-> c,
                   monitored |-> is_monitored_channel(monitored_channels,
                                                      channel_username_of(c))] }
          /\ debug_log' # debug_log
    /\ UNCHANGED << envVars, callVars, userVars, dbVars, now, cache, pc, msg, stages, raised,
                    returned, outcome, notification_id, active_users, idx, visited,
                    doneBefore, existsAt, markExpiry, eligibleAtResolve, faults >>

\* ------------------------------------------------------------ process_message
\* Lines 199-208: the monitored-channel gate.
Gate(i) ==
    /\ pc[i] = "gate"
    /\ Runs(i)
    /\ Called(i, "gate")
    /\ LET r == is_monitored_channel(monitored_channels, channel_username_of(msg[i].chat))
       IN  CASE r = "AttributeError" ->
                    /\ Raised(i, "gate")
                    /\ Goto(i, on_exception("gate"), "ERROR")
             [] r = "False" ->
                    /\ Goto(i, "return", "GATED_OUT")
                    /\ UNCHANGED raised
             [] OTHER ->
                    /\ Goto(i, IF redis THEN "exists" ELSE "detect", outcome[i])
                    /\ UNCHANGED raised
    /\ UNCHANGED << envVars, callVars, userVars, dbVars, now, cache, msg, notification_id,
                    active_users, idx, visited, doneBefore, existsAt, markExpiry,
                    eligibleAtResolve, debug_log, faults >>

\* redis.exists(key): a mark that has not expired.
redis_exists_never_expires(key) == cache[key] > 0
redis_exists(key) == cache[key] > now

\* Lines 214-216: a message whose key is marked is dropped.
is_duplicate_never(key) == FALSE
is_duplicate(key) == redis_exists(key)

\* Lines 214-216: exists, and the return on a hit.
Exists(i) ==
    /\ pc[i] = "exists"
    /\ Runs(i)
    /\ Called(i, "exists")
    /\ \E fail \in FaultChoices :
          /\ Fault(fail)
          /\ IF fail
             THEN /\ Raised(i, "exists")
                  /\ Goto(i, on_exception("exists"), outcome[i])
                  /\ UNCHANGED existsAt
             ELSE /\ existsAt' = [existsAt EXCEPT ![i] = now]
                  /\ UNCHANGED raised
                  /\ IF is_duplicate(message_key(msg[i]))
                     THEN Goto(i, "return", "DUPLICATE")
                     ELSE Goto(i, "setex", outcome[i])
    /\ UNCHANGED << envVars, callVars, userVars, dbVars, now, cache, msg, notification_id,
                    active_users, idx, visited, doneBefore, markExpiry,
                    eligibleAtResolve, debug_log >>

\* Line 218: setex(key, 3600, "1").
Setex(i) ==
    /\ pc[i] = "setex"
    /\ Runs(i)
    /\ Called(i, "setex")
    /\ \E fail \in FaultChoices :
          /\ Fault(fail)
          /\ IF fail
             THEN /\ Raised(i, "setex")
                  /\ Goto(i, on_exception("setex"), outcome[i])
                  /\ UNCHANGED << cache, markExpiry >>
             ELSE /\ cache' = [cache EXCEPT ![message_key(msg[i])] = now + DEDUP_TTL]
                  /\ markExpiry' = [markExpiry EXCEPT ![i] = now + DEDUP_TTL]
                  /\ UNCHANGED raised
                  /\ Goto(i, "detect", outcome[i])
    /\ UNCHANGED << envVars, callVars, userVars, dbVars, now, msg, notification_id,
                    active_users, idx, visited, doneBefore, existsAt,
                    eligibleAtResolve, debug_log >>

\* Lines 223-235 and 256-259: detection, and the test of db.pool.
Detect(i) ==
    /\ pc[i] = "detect"
    /\ Runs(i)
    /\ Called(i, "detect")
    /\ LET g == detect_gift(msg[i].text)
       IN  CASE g.kind = "UnicodeEncodeError" ->
                    /\ Raised(i, "detect")
                    /\ Goto(i, on_exception("detect"), "ERROR")
             [] g.kind = "None" ->
                    /\ Goto(i, "return", "NO_DETECTION")
                    /\ UNCHANGED raised
             [] OTHER ->
                    /\ UNCHANGED raised
                    /\ IF pool
                       THEN Goto(i, "save", "DETECTED")
                       ELSE Goto(i, "return", "NOT_PERSISTED")
    /\ UNCHANGED << envVars, callVars, userVars, dbVars, now, cache, msg, notification_id,
                    active_users, idx, visited, doneBefore, existsAt, markExpiry,
                    eligibleAtResolve, debug_log, faults >>

\* ------------------------------------------------------------------ Database
SaveFaults == {"none", "select", "insert", "update"}

\* What save_notification hands back when the statement named by `fault`
\* fails ("none": all succeed).  The docker adapter logs every error and
\* returns None; the asyncpg version lets the error propagate.
save_notification_result(fault, nid) ==
    IF fault = "none" THEN [kind |-> "value", id |-> nid]
    ELSE IF backend = "docker" THEN [kind |-> "value", id |-> NoneId]
    ELSE [kind |-> "raise", id |-> NoneId]

\* Rows save_notification leaves in table channels: the chat's row is created
\* when the lookup by telegram_id finds none, and its counter is raised after
\* the notification was inserted.
save_notification_channels(fault, chat) ==
    LET created == IF fault # "select" /\ ~channels[chat.id].present
                   THEN [channels EXCEPT ![chat.id] =
                            [present |-> TRUE, username |-> channel_username_of(chat),
                             total |-> 0, is_active |-> TRUE]]
                   ELSE channels
    IN  IF fault = "none"
        THEN [created EXCEPT ![chat.id].total = @ + 1]
        ELSE created

\* Lines 237-243: save_notification.
Save(i) ==
    /\ pc[i] = "save"
    /\ Runs(i)
    /\ Called(i, "save")
    /\ \E fault \in (IF faults < fault_budget THEN SaveFaults ELSE {"none"}) :
          LET nid == Cardinality(notifications) + 1
              ret == save_notification_result(fault, nid)
          IN  /\ Fault(fault # "none")
              /\ channels' = save_notification_channels(fault, msg[i].chat)
              /\ notifications' =
                    IF fault \in {"none", "update"}
                    THEN notifications \cup
                            { [id |-> nid, chat_id |-> msg[i].chat.id,
                               msg_id |-> msg[i].id, inv |-> i,
                               urgency_score |-> detect_gift(msg[i].text).urgency_score] }
                    ELSE notifications
              /\ IF ret.kind = "raise"
                 THEN /\ Raised(i, "save")
                      /\ Goto(i, on_exception("save"), "PERSIST_FAILED")
                      /\ UNCHANGED notification_id
                 ELSE /\ notification_id' = [notification_id EXCEPT ![i] = ret.id]
                      /\ Goto(i, "resolve", IF ret.id = NoneId THEN "PERSIST_FAILED"
                                                               ELSE "PERSISTED")
                      /\ UNCHANGED raised
    /\ UNCHANGED << envVars, callVars, userVars, deliveries, now, cache, msg, active_users, idx,
                    visited, doneBefore, existsAt, markExpiry, eligibleAtResolve,
                    debug_log >>

\* A licence row that is activated for u, not revoked and not expired.
license_valid(u) ==
    \E k \in DOMAIN licenses :
        /\ licenses[k].user_id = u
        /\ ~licenses[k].revoked
        /\ licenses[k].expires_at > now

\* The users entitled to an event of chat `cid`.
entitled(cid) ==
    {u \in Users : subscribed[u] = cid /\ license_valid(u) /\ ~is_banned[u] /\ ~is_muted[u]}

\* get_active_users_for_channel: the docker adapter returns no rows; the
\* asyncpg version joins users, user_subscriptions and channels.
get_active_users_for_channel(name) ==
    IF backend = "docker" THEN {}
    ELSE {u \in Users :
            /\ subscribed[u] # 0
            /\ channels[subscribed[u]].present
            /\ channels[subscribed[u]].username = name
            /\ has_valid_license[u]
            /\ ~is_banned[u]
            /\ ~is_muted[u]}

\* The rows of a query, in id order.
RECURSIVE rows(_)
rows(S) ==
    IF S = {} THEN <<>>
    ELSE LET m == CHOOSE x \in S : \A y \in S : x <= y
         IN  <<m>> \o rows(S \ {m})

\* Lines 284-288: recipient resolution.
Resolve(i) ==
    /\ pc[i] = "resolve"
    /\ Runs(i)
    /\ Called(i, "resolve")
    /\ eligibleAtResolve' = [eligibleAtResolve EXCEPT ![i] = entitled(msg[i].chat.id)]
    /\ \E fail \in (IF backend = "docker" THEN {FALSE} ELSE FaultChoices) :
          /\ Fault(fail)
          /\ IF fail
             THEN /\ Raised(i, "resolve")
                  /\ Goto(i, on_exception("resolve"), outcome[i])
                  /\ UNCHANGED << active_users, idx >>
             ELSE LET found == rows(get_active_users_for_channel(
                                       channel_username_of(msg[i].chat)))
                  IN  /\ active_users' = [active_users EXCEPT ![i] = found]
                      /\ idx' = [idx EXCEPT ![i] = 1]
                      /\ Goto(i, IF found = <<>> THEN "stats" ELSE "user", outcome[i])
                      /\ UNCHANGED raised
    /\ UNCHANGED << envVars, callVars, userVars, dbVars, now, cache, msg, notification_id,
                    visited, doneBefore, existsAt, markExpiry, debug_log >>

\* The token list of one send_to_tokens call, and its gateway batches.
\* tokens = list(set(tokens)): every token once.  The order of the list is
\* the set's; the order of first occurrence is taken for it.
distinct_keeps_duplicates(tokens) == tokens
distinct(tokens) ==
    LET numbered == [k \in 1..Len(tokens) |-> <<k, tokens[k]>>]
        first(p) == \A j \in 1..(p[1] - 1) : tokens[j] # p[2]
        kept == SelectSeq(numbered, first)
    IN  [k \in 1..Len(kept) |-> kept[k][2]]

\* messages[i:i + batch_size]
batch_overlaps(messages, i) ==
    SubSeq(messages, (IF i > 0 THEN i ELSE 1), min_of(i + BATCH_SIZE, Len(messages)))
batch(messages, i) == SubSeq(messages, i + 1, min_of(i + BATCH_SIZE, Len(messages)))

\* The batches of range(0, len(messages), batch_size), when no send raises.
all_batches(messages) ==
    [j \in 1..((Len(messages) + BATCH_SIZE - 1) \div BATCH_SIZE) |->
        batch(messages, (j - 1) * BATCH_SIZE)]

\* send_to_tokens for n tokens: without an initialised service nothing is
\* sent; a gateway call that raises (g = -1) is caught inside and counts every
\* token as failed; else the gateway reports g successes.
send_to_tokens(n, g) ==
    IF ~push_initialized THEN [success |-> 0, failure |-> n, send |-> "not_initialized"]
    ELSE IF g = -1 THEN [success |-> 0, failure |-> n, send |-> "gateway"]
    ELSE [success |-> g, failure |-> n - g, send |-> "gateway"]

\* Line 323: the delivery is logged when the gateway reported a success.
logs_delivery(results) == results.success > 0

\* The recipient loop after the recipient at position k: the next one, or the
\* statistics when the list is done.
after_user(i, k) == IF k >= Len(active_users[i]) THEN "stats" ELSE "user"

\* get_user_fcm_tokens: the tokens of the user's active device rows.
get_user_fcm_tokens(u) == [k \in 1..devices[u] |-> <<u, k>>]

\* Line 313: if tokens:
has_tokens_whatever(n) == TRUE
has_tokens(n) == n > 0

\* Lines 305-334: one pass of the recipient loop.  The tokens of one user fit
\* one gateway batch.
ProcessUser(i) ==
    /\ pc[i] = "user"
    /\ Runs(i)
    /\ Called(i, "user")
    /\ LET u == active_users[i][idx[i]]
           n == devices[u]
       IN  \E tokens_fail \in FaultChoices, g \in -1..n, log_fail \in FaultChoices :
             LET results == send_to_tokens(n, g)
                 sent == ~tokens_fail /\ has_tokens(n)
                 logging == sent /\ logs_delivery(results)
                 written == logging /\ ~log_fail /\ backend = "asyncpg"
                 failed == IF tokens_fail THEN {"tokens"}
                           ELSE IF logging /\ log_fail THEN {"log"} ELSE {}
                 target == IF failed = {} THEN "next_user"
                           ELSE on_exception(CHOOSE c \in failed : TRUE)
                 entry == [user |-> u,
                           tokens_call |-> IF tokens_fail THEN "raise" ELSE "ok",
                           tokens |-> IF tokens_fail THEN 0 ELSE n,
                           send |-> IF sent THEN results.send ELSE "none",
                           success |-> IF sent THEN results.success ELSE 0,
                           calls |-> IF sent /\ results.send = "gateway"
                                     THEN all_batches(distinct(get_user_fcm_tokens(u)))
                                     ELSE <<>>,
                           log |-> IF ~logging THEN "none"
                                   ELSE IF log_fail THEN "raise" ELSE "written"]
             IN  /\ (in_call = i => sent)
                 /\ (~sent \/ ~push_initialized => g = 0)
                 /\ (g = -1 => faults < fault_budget)
                 /\ (~logging => ~log_fail)
                 /\ Fault(tokens_fail \/ log_fail \/ g = -1)
                 /\ visited' = [visited EXCEPT ![i] = Append(@, entry)]
                 /\ raised' = [raised EXCEPT ![i] = @ \cup failed]
                 /\ deliveries' =
                        IF written
                        THEN deliveries \cup
                                { [notification_id |-> notification_id[i], user_id |-> u,
                                   delivered |-> TRUE] }
                        ELSE deliveries
                 /\ IF target = "next_user"
                    THEN /\ idx' = [idx EXCEPT ![i] = @ + 1]
                         /\ Goto(i, after_user(i, idx[i]), outcome[i])
                    ELSE /\ UNCHANGED idx
                         /\ Goto(i, target, outcome[i])
    /\ UNCHANGED << envVars, callVars, userVars, channels, notifications, now, cache, msg,
                    notification_id, active_users, doneBefore, existsAt, markExpiry,
                    eligibleAtResolve, debug_log >>

\* increment_channel_stats: every row with this username.
increment_channel_stats(name) ==
    [t \in ChatIds |->
        IF channels[t].present /\ channels[t].username = name
        THEN [channels[t] EXCEPT !.total = @ + 1]
        ELSE channels[t]]

\* Terminal state of a message whose fan-out and statistics have run.
final_outcome(i) ==
    IF notification_id[i] = NoneId THEN "PERSIST_FAILED"
    ELSE IF \E k \in 1..Len(visited[i]) : visited[i][k].send # "none" THEN "NOTIFIED"
    ELSE "NOTIFY_SKIPPED"

\* Lines 252-253 and 341-359: _update_statistics.
Stats(i) ==
    /\ pc[i] = "stats"
    /\ Runs(i)
    /\ Called(i, "stats")
    /\ \E fail \in FaultChoices :
          /\ Fault(fail)
          /\ IF fail
             THEN /\ Raised(i, "stats")
                  /\ Goto(i, on_exception("stats"), final_outcome(i))
                  /\ UNCHANGED channels
             ELSE /\ channels' = increment_channel_stats(channel_username_of(msg[i].chat))
                  /\ Goto(i, "return", final_outcome(i))
                  /\ UNCHANGED raised
    /\ UNCHANGED << envVars, callVars, userVars, notifications, deliveries, now, cache, msg,
                    notification_id, active_users, idx, visited, doneBefore, existsAt,
                    markExpiry, eligibleAtResolve, debug_log >>

\* ---------------------------------------------------------- synchronous calls
\* The calls of a handler that do not yield to the event loop: subprocess.run
\* under every query of the docker adapter (save_notification,
\* increment_channel_stats), and messaging.send_all in send_to_tokens.
in_storage_call(i) == backend = "docker" /\ pc[i] \in {"save", "stats"}
in_gateway_call(i) ==
    /\ pc[i] = "user"
    /\ push_initialized
    /\ has_tokens(devices[active_users[i][idx[i]]])

\* The handler enters the call and holds the loop until the call returns.
EnterCall(i) ==
    /\ in_call = 0
    /\ in_storage_call(i) \/ in_gateway_call(i)
    /\ in_call' = i
    /\ UNCHANGED << envVars, callVars, userVars, dbVars, now, cache, pc, msg, stages, raised,
                    returned, outcome, notification_id, active_users, idx, visited,
                    doneBefore, existsAt, markExpiry, eligibleAtResolve, debug_log, faults >>

\* ---------------------------------------------------------------------- time
Tick ==
    /\ UNCHANGED in_call
    /\ now + TickStep <= MaxClock
    /\ now' = now + TickStep
    /\ UNCHANGED << envVars, callVars, userVars, dbVars, cache, pc, msg, stages, raised, returned,
                    outcome, notification_id, active_users, idx, visited, doneBefore,
                    existsAt, markExpiry, eligibleAtResolve, debug_log, faults >>

\* ------------------------------------------------- detect_gift on its own
\* Pieces of message text; a text is up to MaxFragments of them in a row, so
\* that a pattern may span two pieces ("1" then "0%" reads "10%").  Texts are
\* the ones Telegram delivers: decoded UTF-8, with no lone surrogate.
FragGift == <<"g", "i", "f", "t", " ">>
FragRareUpper == <<"R", "A", "R", "E", " ">>
FragHello == <<"h", "e", "l", "l", "o", " ">>
FragSoldOut == <<"s", "o", "l", "d", " ", "o", "u", "t", " ">>
FragZeroPercent == <<"0", "%">>
FragOne == <<"1">>
FragFiftyPercent == <<"5", "0", "%", " ">>
FragFivePercent == <<"5", "%", " ">>
FragFifteenPercent == <<"1", "5", "%", " ">>
FragThirtyFivePercent == <<"3", "5", "%", " ">>
FragThird == <<"1", "/", "3", " ">>
FragAllTaken == <<"5", "/", "5", " ">>
FragSpecExample == <<"1", "2", "0", "/", "1", "0", "0", "0", " ">>
FragOverdrawn == <<"7", "/", "2", " ">>
FragZeroTotal == <<"3", "/", "0", " ">>
Fragments ==
    { FragGift,
      FragRareUpper,
      FragHello,
      FragSoldOut,
      FragZeroPercent,
      FragOne,
      FragFiftyPercent,
      FragFivePercent,
      FragFifteenPercent,
      FragThirtyFivePercent,
      FragThird,
      FragAllTaken,
      FragSpecExample,
      FragOverdrawn,
      FragZeroTotal }

RECURSIVE concat(_)
concat(parts) == IF parts = <<>> THEN <<>> ELSE Head(parts) \o concat(Tail(parts))

DetectorTexts ==
    {concat(parts) : parts \in UNION {[1..n -> Fragments] : n \in 0..MaxFragments}}

\* One call detect_gift(text).
DetectGift ==
    /\ detect_call = NoDetectCall
    /\ \E t \in DetectorTexts : detect_call' = [text |-> t, result |-> detect_gift(t)]
    /\ UNCHANGED << envVars, userVars, dbVars, now, cache, pc, msg, stages, raised,
                    returned, outcome, notification_id, active_users, idx, visited,
                    doneBefore, existsAt, markExpiry, eligibleAtResolve, debug_log,
                    faults, in_call, send_call, start_call, detect_calls, registry_calls, license_calls >>

\* ------------------------------------------------- detect_gift, called again
\* Pieces of text with prices, emoji and identifiers, and a text of more than
\* 100 characters.
MaxPieces == 2       \* pieces of text in a message given to detect_gift twice
PieceStarPrice == <<"5", ",", "0", "0", "0", " ", "U+2B50", " ">>
PiecePriceWord == <<"P", "r", "i", "c", "e", " ", "3", "0", "0", " ">>
PieceCommaNumbers == <<"1", ",", "2", "3", "4", " ", "1", "2", ",", "3", "4", "5", ",", "6", "7", "8", " ", "9", ",", "9", "9", " ">>
PieceId == <<"1", "2", "3", "4", "5", "6", "7", "8", "9", "0", " ">>
PieceOtherId == <<"9", "8", "7", "6", "5", "4", "3", "2", "1", "0", "9", "8", "7", "6", "5", "4", "3", "2", "1", "0", " ", "U+1F3C6", " ">>
PieceGluedId == <<"x", "1", "2", "3", "4", "5", "6", "7", "8", "9", "0", " ">>
PieceTooLong == <<"1", "2", "3", "4", "5", "6", "7", "8", "9", "0", "1", "2", "3", "4", "5", "6", "7", "8", "9", "0", "1", " ">>
PieceDiamond == <<"U+1F48E">>
Pieces ==
    { FragGift, FragHello, PieceStarPrice, PiecePriceWord, PieceCommaNumbers,
      PieceId, PieceOtherId, PieceGluedId, PieceTooLong, PieceDiamond }
LongText == concat([k \in 1..12 |-> FragSpecExample])
RepeatTexts ==
    {concat(parts) : parts \in UNION {[1..n -> Pieces] : n \in 0..MaxPieces}}
        \cup {LongText, LongText \o PieceId, TextGiftAlert}

\* One call detect_gift(text) at the instant the clock shows; a second call
\* is made on the text of the first.
DetectGiftAt ==
    /\ Len(detect_calls.results) < 2
    /\ \E t \in (IF detect_calls = NoDetectCalls THEN RepeatTexts ELSE {detect_calls.text}) :
          detect_calls' = [text |-> t,
                           results |-> Append(detect_calls.results, gift_data(t, now))]
    /\ UNCHANGED << monitorVars, detect_call, send_call, start_call, registry_calls, license_calls >>

\* ---------------------------------------------- send_to_tokens, in detail
\* Token lists handed to send_to_tokens: n distinct tokens, the first d of
\* them a second time at the end; n around the multiples of the batch size.
TokenCounts ==
    {n \in 0..(MaxChunks * BATCH_SIZE + 1) :
        \E c \in 0..MaxChunks, r \in {-1, 0, 1} : n = c * BATCH_SIZE + r}
TokenList(n, d) == [k \in 1..(n + d) |-> IF k <= n THEN k ELSE k - n]
TokenLists ==
    {TokenList(p[1], p[2]) : p \in {q \in TokenCounts \X (0..MaxDuplicates) : q[2] <= q[1]}}

\* Lines 215-220: except Exception around the batch loop.
on_send_error_reports_success(tokens) == [success |-> Len(tokens), failure |-> 0]
on_send_error(tokens) == [success |-> 0, failure |-> Len(tokens)]

\* Lines 152-160: the call, up to the first gateway batch.
SendToTokensCall ==
    /\ send_call = NoSendCall
    /\ \E tokens \in TokenLists :
          send_call' =
            IF ~push_initialized
            THEN [pc |-> "returned", input |-> tokens, tokens |-> tokens, i |-> 0,
                  calls |-> <<>>, raised |-> FALSE, success_count |-> 0, failure_count |-> 0,
                  result |-> [success |-> 0, failure |-> Len(tokens)]]
            ELSE IF tokens = <<>>
            THEN [pc |-> "returned", input |-> tokens, tokens |-> tokens, i |-> 0,
                  calls |-> <<>>, raised |-> FALSE, success_count |-> 0, failure_count |-> 0,
                  result |-> [success |-> 0, failure |-> 0]]
            ELSE [pc |-> "loop", input |-> tokens, tokens |-> distinct(tokens), i |-> 0,
                  calls |-> <<>>, raised |-> FALSE, success_count |-> 0, failure_count |-> 0,
                  result |-> [success |-> 0, failure |-> 0]]
    /\ UNCHANGED << envVars, userVars, dbVars, now, cache, pc, msg, stages, raised,
                    returned, outcome, notification_id, active_users, idx, visited,
                    doneBefore, existsAt, markExpiry, eligibleAtResolve, debug_log,
                    faults, in_call, detect_call, start_call, detect_calls, registry_calls, license_calls >>

\* Lines 196-201 and 215-220: one pass of the batch loop.  messaging.send_all
\* accepts some of the batch, or raises, which ends the call.
SendAll ==
    /\ send_call.pc = "loop"
    /\ send_call.i < Len(send_call.tokens)
    /\ LET b == batch(send_call.tokens, send_call.i)
       IN  \E accepted \in {0, Len(b) - 1, Len(b)}, fails \in BOOLEAN :
              send_call' =
                IF fails
                THEN [send_call EXCEPT
                        !.pc = "returned",
                        !.calls = Append(@, b),
                        !.raised = TRUE,
                        !.result = on_send_error(send_call.tokens)]
                ELSE [send_call EXCEPT
                        !.calls = Append(@, b),
                        !.i = @ + BATCH_SIZE,
                        !.success_count = @ + accepted,
                        !.failure_count = @ + (Len(b) - accepted)]
    /\ UNCHANGED << envVars, userVars, dbVars, now, cache, pc, msg, stages, raised,
                    returned, outcome, notification_id, active_users, idx, visited,
                    doneBefore, existsAt, markExpiry, eligibleAtResolve, debug_log,
                    faults, in_call, detect_call, start_call, detect_calls, registry_calls, license_calls >>

\* Lines 208-213: the counts are returned when the loop is done.
SendReturn ==
    /\ send_call.pc = "loop"
    /\ send_call.i >= Len(send_call.tokens)
    /\ send_call' = [send_call EXCEPT
            !.pc = "returned",
            !.result = [success |-> send_call.success_count,
                        failure |-> send_call.failure_count]]
    /\ UNCHANGED << envVars, userVars, dbVars, now, cache, pc, msg, stages, raised,
                    returned, outcome, notification_id, active_users, idx, visited,
                    doneBefore, existsAt, markExpiry, eligibleAtResolve, debug_log,
                    faults, in_call, detect_call, start_call, detect_calls, registry_calls, license_calls >>

\* --------------------------------------------------- initialize() and start()
\* MONITOR_CHANNELS: the handles configured in the environment, and the chat
\* each of them names at the source.
ConfigA == <<"@", "a">>
ConfigC == <<"@", "c">>
ConfiguredLists == { <<>>, <<ConfigA>>, <<ConfigA, ConfigC>> }
get_chat(handle) == IF handle = ConfigA THEN 1 ELSE 2

\* The rows get_active_channels finds in the store.
StoredLists == { <<>>, RegistryPlain, RegistryAt }

\* e.x of a FloodWait, in seconds.
FloodSeconds == 30

\* Line 113: if not self.monitored_channels
needs_config_always(chs) == TRUE
needs_config(chs) == chs = <<>>

\* Lines 45-90: initialize().  db.initialize() raises when the store is down;
\* get_active_channels gives the active rows (none also when its query failed).
Initialize ==
    /\ start_call = NoStartCall
    /\ \E db_up \in BOOLEAN, stored \in StoredLists, config \in ConfiguredLists :
          /\ (~db_up => stored = <<>>)
          /\ start_call' =
                [pc |-> "start", db_up |-> db_up, pool |-> db_up, stored |-> stored,
                 config |-> config,
                 monitored_channels |-> IF db_up THEN stored ELSE <<>>,
                 k |-> 1, resolved |-> {}, unresolved |-> {}, saved |-> {},
                 save_failed |-> {}, clock |-> 0, join_at |-> <<>>, waits |-> <<>>,
                 handler_chats |-> get_monitored_chat_ids(<<>>), registered_at |-> -1]
    /\ UNCHANGED << monitorVars, detect_call, send_call, detect_calls, registry_calls, license_calls >>

\* Lines 103-114: start() up to the choice of the configured list.
Start ==
    /\ start_call.pc = "start"
    /\ start_call' = [start_call EXCEPT
            !.pc = IF needs_config(start_call.monitored_channels) /\ start_call.config # <<>>
                   THEN "loading" ELSE "joining"]
    /\ UNCHANGED << monitorVars, detect_call, send_call, detect_calls, registry_calls, license_calls >>

\* Lines 167-195: one pass of the loop of load_channels_from_config.  get_chat
\* may raise, which skips the channel; add_channel is tried when db.pool is
\* truthy, and its failure is logged.
LoadChannel ==
    /\ start_call.pc = "loading"
    /\ LET handle == start_call.config[start_call.k]
           after == IF start_call.k >= Len(start_call.config) THEN "joining" ELSE "loading"
           next_k == IF after = "joining" THEN 1 ELSE start_call.k + 1
       IN  \E resolve_fails \in BOOLEAN, save_fails \in BOOLEAN :
              /\ (resolve_fails \/ ~start_call.pool => ~save_fails)
              /\ start_call' =
                    IF resolve_fails
                    THEN [start_call EXCEPT
                            !.unresolved = @ \cup {handle},
                            !.pc = after, !.k = next_k]
                    ELSE [start_call EXCEPT
                            !.monitored_channels = Append(@, Channel(get_chat(handle), handle)),
                            !.resolved = @ \cup {handle},
                            !.saved = IF start_call.pool /\ ~save_fails
                                      THEN @ \cup {handle} ELSE @,
                            !.save_failed = IF save_fails THEN @ \cup {handle} ELSE @,
                            !.pc = after, !.k = next_k]
    /\ UNCHANGED << monitorVars, detect_call, send_call, detect_calls, registry_calls, license_calls >>

\* Lines 117-127: one pass of the join loop.  join_chat joins, raises
\* FloodWait, after which the loop sleeps e.x seconds, or raises otherwise.
join_sleep(answer) == IF answer = "FloodWait" THEN FloodSeconds ELSE 0

JoinChat ==
    /\ start_call.pc = "joining"
    /\ start_call.k <= Len(start_call.monitored_channels)
    /\ \E answer \in {"joined", "FloodWait", "error"} :
          start_call' = [start_call EXCEPT
                !.join_at = Append(@, start_call.clock),
                !.waits = Append(@, join_sleep(answer)),
                !.clock = @ + join_sleep(answer),
                !.k = @ + 1]
    /\ UNCHANGED << monitorVars, detect_call, send_call, detect_calls, registry_calls, license_calls >>

\* Lines 129-132: the handler is registered with the chat ids of this moment.
RegisterHandler ==
    /\ start_call.pc = "joining"
    /\ start_call.k > Len(start_call.monitored_channels)
    /\ start_call' = [start_call EXCEPT
            !.pc = "running",
            !.handler_chats = get_monitored_chat_ids(start_call.monitored_channels),
            !.registered_at = start_call.clock]
    /\ UNCHANGED << monitorVars, detect_call, send_call, detect_calls, registry_calls, license_calls >>

\* ------------------------------------------- add_channel and remove_channel
MaxRegistryCalls == 2   \* calls of add_channel and remove_channel in one behaviour

\* The handles the callers pass, and the chat the source knows under each.
RegistryHandles == { <<"x">>, <<"@", "x">>, <<"a">>, <<"@", "a">> }
chat_named(handle) == IF replace_at(handle) = <<"x">> THEN 3 ELSE 1

\* if not channel_username.startswith('@'): channel_username = f"@{channel_username}"
normalize_handle(handle) ==
    IF handle # <<>> /\ Head(handle) = "@" THEN handle ELSE <<"@">> \o handle

\* Database.add_channel: INSERT ... ON CONFLICT (telegram_id) DO UPDATE.
db_add_channel(tid, name) ==
    [channels EXCEPT ![tid] =
        [present |-> TRUE, username |-> name,
         total |-> IF @.present THEN @.total ELSE 0, is_active |-> TRUE]]

\* Database.deactivate_channel: UPDATE ... SET is_active = FALSE WHERE username = $1.
deactivate_channel(name) ==
    [t \in ChatIds |->
        IF channels[t].present /\ channels[t].username = name
        THEN [channels[t] EXCEPT !.is_active = FALSE]
        ELSE channels[t]]

\* Database.get_active_channels over the rows: the active ones, in one of the
\* orders a SELECT without ORDER BY may give them.
active_channel_lists(table) ==
    LET ids == {t \in ChatIds : table[t].present /\ table[t].is_active}
    IN  {[k \in 1..Cardinality(ids) |-> Channel(order[k], table[order[k]].username)] :
            order \in {f \in [1..Cardinality(ids) -> ids] :
                          \A a, b \in 1..Cardinality(ids) : a # b => f[a] # f[b]}}

\* Messages handed to process_message so far.
Delivered == Cardinality({j \in Inv : pc[j] # "idle"})

RegistryCall(op, handle, success) ==
    registry_calls' = Append(registry_calls,
        [op |-> op, handle |-> handle, chat |-> chat_named(handle), success |-> success,
         delivered |-> Delivered])

\* Lines 361-395: add_channel.  The docker Database does nothing before it is
\* initialised and then lists no channel; the asyncpg one raises without pool.
\* The handler registered by start() keeps the chat ids it was given.
AddChannel ==
    /\ LoopFree
    /\ Len(registry_calls) < MaxRegistryCalls
    /\ \E handle \in RegistryHandles, join_fails \in BOOLEAN :
          LET name == normalize_handle(handle)
              known == is_monitored_channel(monitored_channels, name)
              table == IF pool THEN db_add_channel(chat_named(handle), name) ELSE channels
          IN  IF known # "False" \/ join_fails \/ (backend = "asyncpg" /\ ~pool)
              THEN /\ RegistryCall("add", handle, FALSE)
                   /\ UNCHANGED << monitored_channels, channels >>
              ELSE /\ RegistryCall("add", handle, TRUE)
                   /\ channels' = table
                   /\ IF pool
                      THEN monitored_channels' \in active_channel_lists(table)
                      ELSE monitored_channels' = <<>>
    /\ UNCHANGED << backend, redis, pool, push_initialized, workers, handler_chats, quota,
                    fault_budget, userVars, notifications, deliveries, now, cache, pc, msg,
                    stages, raised, returned, outcome, notification_id, active_users, idx,
                    visited, doneBefore, existsAt, markExpiry, eligibleAtResolve, debug_log,
                    faults, detect_call, send_call, start_call, detect_calls, license_calls >>

\* Lines 397-413: remove_channel.  The docker Database has no
\* deactivate_channel, which the except clause turns into a failure.
RemoveChannel ==
    /\ LoopFree
    /\ Len(registry_calls) < MaxRegistryCalls
    /\ \E handle \in RegistryHandles :
          IF backend = "docker" \/ ~pool
          THEN /\ RegistryCall("remove", handle, FALSE)
               /\ UNCHANGED << monitored_channels, channels >>
          ELSE /\ RegistryCall("remove", handle, TRUE)
               /\ channels' = deactivate_channel(handle)
               /\ monitored_channels' \in active_channel_lists(deactivate_channel(handle))
    /\ UNCHANGED << backend, redis, pool, push_initialized, workers, handler_chats, quota,
                    fault_budget, userVars, notifications, deliveries, now, cache, pc, msg,
                    stages, raised, returned, outcome, notification_id, active_users, idx,
                    visited, doneBefore, existsAt, markExpiry, eligibleAtResolve, debug_log,
                    faults, detect_call, send_call, start_call, detect_calls, license_calls >>

\* ------------------------------------------------------------------ licences
\* Database.activate_license: the licence row is taken only when it is free
\* and not revoked; the user's flag is set whatever the first UPDATE matched.
activate_license(k, u, expires_at) ==
    /\ licenses' = [licenses EXCEPT ![k] =
            IF @.user_id = 0 /\ ~@.revoked
            THEN [user_id |-> u, expires_at |-> expires_at, revoked |-> FALSE]
            ELSE @]
    /\ has_valid_license' = [has_valid_license EXCEPT ![u] = TRUE]

ActivateLicense ==
    /\ UNCHANGED in_call
    /\ \E k \in LicenseKeys, u \in Users :
          activate_license(k, u, now + TickStep)
    /\ UNCHANGED << envVars, callVars, is_banned, is_muted, subscribed, devices, dbVars, now, cache,
                    pc, msg, stages, raised, returned, outcome, notification_id,
                    active_users, idx, visited, doneBefore, existsAt, markExpiry,
                    eligibleAtResolve, debug_log, faults >>

\* LicenseService.revoke_license: Database.revoke_license, then the owner's flag
\* is cleared.
RevokeLicense ==
    /\ UNCHANGED in_call
    /\ \E k \in LicenseKeys :
          /\ ~licenses[k].revoked
          /\ licenses' = [licenses EXCEPT ![k].revoked = TRUE]
          /\ has_valid_license' =
                IF licenses[k].user_id # 0
                THEN [has_valid_license EXCEPT ![licenses[k].user_id] = FALSE]
                ELSE has_valid_license
    /\ UNCHANGED << envVars, callVars, is_banned, is_muted, subscribed, devices, dbVars, now, cache,
                    pc, msg, stages, raised, returned, outcome, notification_id,
                    active_users, idx, visited, doneBefore, existsAt, markExpiry,
                    eligibleAtResolve, debug_log, faults >>


\* ------------------------------------------------------------ specifications
NobodyFlagged == {[u \in Users |-> FALSE]}
LastFlagged == {[u \in Users |-> FALSE], [u \in Users |-> u = MaxUsers]}
OneTokenEach == [u \in Users |-> 1]
SecondHasTwo == [u \in Users |-> IF u = 2 THEN 2 ELSE 1]
FirstHasNone == [u \in Users |-> IF u = 1 THEN 0 ELSE 1]
NobodyHasTokens == [u \in Users |-> 0]

\* The monitor as telegram_monitor.py binds it: the docker adapter as
\* Database, one message handled at a time, the clock running.
Init ==
    InitWith({"docker"}, BOOLEAN, BOOLEAN, {TRUE}, {1}, {RegistryAt},
             TRUE, NobodyFlagged, NobodyFlagged, {OneTokenEach}, MaxInv, MaxFaults)

Next ==
    \/ \E i \in Inv : Deliver(i)
    \/ \E i \in Inv : Gate(i)
    \/ \E i \in Inv : Exists(i)
    \/ \E i \in Inv : Setex(i)
    \/ \E i \in Inv : Detect(i)
    \/ \E i \in Inv : Save(i)
    \/ \E i \in Inv : Resolve(i)
    \/ \E i \in Inv : Stats(i)
    \/ Tick

Spec == Init /\ [][Next]_vars

\* The same monitor with two handler workers, so that two invocations of
\* process_message are in flight at once.
InitConcurrent ==
    InitWith({"docker"}, {TRUE}, {TRUE}, {TRUE}, {2}, {RegistryAt},
             TRUE, NobodyFlagged, NobodyFlagged, {OneTokenEach}, MaxInv, 0)

SpecConcurrent == InitConcurrent /\ [][Next]_vars

\* The monitor and its debug handler over every registry shape.
InitGate ==
    InitWith({"docker", "asyncpg"}, {FALSE}, {FALSE}, {TRUE}, {1},
             {RegistryAt, RegistryPlain, RegistryNullHandle},
             TRUE, NobodyFlagged, NobodyFlagged, {OneTokenEach}, MaxInv, 0)

NextGate ==
    \/ \E i \in Inv : Deliver(i)
    \/ DebugAllMessages
    \/ \E i \in Inv : Gate(i)
    \/ \E i \in Inv : Detect(i)

SpecGate == InitGate /\ [][NextGate]_vars

\* The monitor over the asyncpg Database, one message at a time, with
\* subscribers and their devices.
InitFanout ==
    InitWith({"asyncpg"}, BOOLEAN, {TRUE}, BOOLEAN, {1},
             {RegistryAt, RegistryPlain, RegistryNullHandle},
             TRUE, NobodyFlagged, NobodyFlagged,
             {SecondHasTwo, FirstHasNone, NobodyHasTokens},
             MaxInv, MaxFaults)

NextFanout ==
    \/ \E i \in Inv : Deliver(i)
    \/ \E i \in Inv : Gate(i)
    \/ \E i \in Inv : Exists(i)
    \/ \E i \in Inv : Setex(i)
    \/ \E i \in Inv : Detect(i)
    \/ \E i \in Inv : Save(i)
    \/ \E i \in Inv : Resolve(i)
    \/ \E i \in Inv : ProcessUser(i)
    \/ \E i \in Inv : Stats(i)

SpecFanout == InitFanout /\ [][NextFanout]_vars

\* ------------------------------------- LicenseService.activate_license
\* Lines 218-232 of licenses.py: verify_license reads the licence row; a row
\* activated for a user is refused when expired or when it is another user's.
verify_passes(license, u) ==
    IF license.user_id # 0
    THEN license.expires_at >= now /\ license.user_id = u
    ELSE TRUE

VerifyLicense(u) ==
    /\ license_calls[u].pc = "idle"
    /\ \E k \in LicenseKeys :
          license_calls' = [license_calls EXCEPT ![u] =
              IF verify_passes(licenses[k], u)
              THEN [pc |-> "verified", key |-> k, success |-> FALSE]
              ELSE [pc |-> "done", key |-> k, success |-> FALSE]]
    /\ UNCHANGED << envVars, userVars, dbVars, now, cache, pc, msg, stages, raised,
                    returned, outcome, notification_id, active_users, idx, visited,
                    doneBefore, existsAt, markExpiry, eligibleAtResolve, debug_log,
                    faults, in_call, detect_call, send_call, start_call, detect_calls,
                    registry_calls >>

\* Lines 234-247: the row is read again for its type, then
\* Database.activate_license runs its two UPDATEs and answers success.
DbActivateLicense(u) ==
    /\ license_calls[u].pc = "verified"
    /\ activate_license(license_calls[u].key, u, now + TickStep)
    /\ license_calls' = [license_calls EXCEPT ![u].pc = "activated"]
    /\ UNCHANGED << envVars, is_banned, is_muted, subscribed, devices, dbVars, now, cache,
                    pc, msg, stages, raised, returned, outcome, notification_id,
                    active_users, idx, visited, doneBefore, existsAt, markExpiry,
                    eligibleAtResolve, debug_log, faults, in_call, detect_call, send_call,
                    start_call, detect_calls, registry_calls >>

\* Lines 249-258: update_user_license_status(user_id, True) and the answer.
ConfirmLicense(u) ==
    /\ license_calls[u].pc = "activated"
    /\ has_valid_license' = [has_valid_license EXCEPT ![u] = TRUE]
    /\ license_calls' = [license_calls EXCEPT ![u].pc = "done", ![u].success = TRUE]
    /\ UNCHANGED << envVars, is_banned, is_muted, subscribed, devices, licenses, dbVars, now,
                    cache, pc, msg, stages, raised, returned, outcome, notification_id,
                    active_users, idx, visited, doneBefore, existsAt, markExpiry,
                    eligibleAtResolve, debug_log, faults, in_call, detect_call, send_call,
                    start_call, detect_calls, registry_calls >>

\* The same, with licences activated, revoked and expiring while events arrive.
InitLicense ==
    InitWith({"asyncpg"}, {FALSE}, {TRUE}, {TRUE}, {1}, {RegistryPlain},
             FALSE, LastFlagged, LastFlagged, {OneTokenEach}, 1, 0)

NextLicense ==
    \/ \E i \in Inv : Deliver(i)
    \/ \E i \in Inv : Gate(i)
    \/ \E i \in Inv : Detect(i)
    \/ \E i \in Inv : Save(i)
    \/ \E i \in Inv : Resolve(i)
    \/ \E i \in Inv : ProcessUser(i)
    \/ \E i \in Inv : Stats(i)
    \/ ActivateLicense
    \/ RevokeLicense
    \/ Tick

SpecLicense == InitLicense /\ [][NextLicense]_vars

\* Activation requests of the users, as coroutines of the API's event loop,
\* with licences revoked and time passing in between.
InitActivation ==
    InitWith({"asyncpg"}, {FALSE}, {TRUE}, {TRUE}, {1}, {RegistryPlain},
             FALSE, NobodyFlagged, NobodyFlagged, {OneTokenEach}, 0, 0)

NextActivation ==
    \/ \E u \in Users : VerifyLicense(u)
    \/ \E u \in Users : DbActivateLicense(u)
    \/ \E u \in Users : ConfirmLicense(u)
    \/ RevokeLicense
    \/ Tick

SpecActivation == InitActivation /\ [][NextActivation]_vars

\* Two handler workers on one event loop, over either Database, with the
\* synchronous calls of the handlers as steps of their own.
InitLoop ==
    InitWith({"docker", "asyncpg"}, {TRUE}, {TRUE}, {TRUE}, {2},
             {RegistryAt, RegistryPlain},
             TRUE, NobodyFlagged, NobodyFlagged, {OneTokenEach}, MaxInv, 0)

NextLoop ==
    \/ \E i \in Inv : Deliver(i)
    \/ \E i \in Inv : Gate(i)
    \/ \E i \in Inv : Exists(i)
    \/ \E i \in Inv : Setex(i)
    \/ \E i \in Inv : Detect(i)
    \/ \E i \in Inv : Save(i)
    \/ \E i \in Inv : Resolve(i)
    \/ \E i \in Inv : EnterCall(i)
    \/ \E i \in Inv : ProcessUser(i)
    \/ \E i \in Inv : Stats(i)

SpecLoop == InitLoop /\ [][NextLoop]_vars

\* detect_gift called on its own, on every text of DetectorTexts.
InitDetector ==
    InitWith({"docker"}, {FALSE}, {FALSE}, {FALSE}, {1}, {RegistryPlain}, FALSE, NobodyFlagged, NobodyFlagged, {OneTokenEach}, 0, 0)
NextDetector == DetectGift
SpecDetector == InitDetector /\ [][NextDetector]_vars

\* send_to_tokens called on its own, on every list of TokenLists.
InitSend ==
    InitWith({"docker"}, {FALSE}, {FALSE}, BOOLEAN, {1}, {RegistryPlain}, FALSE, NobodyFlagged, NobodyFlagged, {OneTokenEach}, 0, 0)
NextSend == SendToTokensCall \/ SendAll \/ SendReturn
SpecSend == InitSend /\ [][NextSend]_vars

\* detect_gift called twice on one text while the clock runs.
InitRepeat ==
    InitWith({"docker"}, {FALSE}, {FALSE}, {FALSE}, {1}, {RegistryPlain}, FALSE,
             NobodyFlagged, NobodyFlagged, {OneTokenEach}, 0, 0)
NextRepeat == DetectGiftAt \/ Tick
SpecRepeat == InitRepeat /\ [][NextRepeat]_vars

\* initialize() and start() alone, over the stores and the configured lists.
InitStart ==
    InitWith({"docker"}, {FALSE}, {FALSE}, {FALSE}, {1}, {RegistryPlain}, FALSE,
             NobodyFlagged, NobodyFlagged, {OneTokenEach}, 0, 0)
NextStart == Initialize \/ Start \/ LoadChannel \/ JoinChat \/ RegisterHandler
SpecStart == InitStart /\ [][NextStart]_vars

\* The running monitor while channels are added and removed and one message
\* arrives.
InitRegistry ==
    InitWith({"docker", "asyncpg"}, {FALSE}, BOOLEAN, {FALSE}, {1}, {RegistryAt, RegistryPlain},
             TRUE, NobodyFlagged, NobodyFlagged, {OneTokenEach}, 1, 0)

NextRegistry ==
    \/ \E i \in Inv : Deliver(i)
    \/ \E i \in Inv : Gate(i)
    \/ \E i \in Inv : Detect(i)
    \/ \E i \in Inv : Save(i)
    \/ \E i \in Inv : Resolve(i)
    \/ \E i \in Inv : ProcessUser(i)
    \/ \E i \in Inv : Stats(i)
    \/ AddChannel
    \/ RemoveChannel

SpecRegistry == InitRegistry /\ [][NextRegistry]_vars

\* ==================================================================== claims
Range(f) == {f[k] : k \in DOMAIN f}
SameKey(i, j) == message_key(msg[i]) = message_key(msg[j])
CacheCallRaised(i) == raised[i] \cap {"exists", "setex"} # {}
PassedGate(i) ==
    /\ pc[i] \notin {"idle", "gate"}
    /\ outcome[i] # "GATED_OUT"
    /\ "gate" \notin raised[i]
PassedDedup(i) == pc[i] = "detect" \/ "detect" \in Range(stages[i])

\* C1: recipients are resolved and sends are issued for a message only after
\* save_notification returned a non-null identifier for it; a message whose
\* persistence failed ends PERSIST_FAILED without any recipient resolution.
C1_FanoutOnlyAfterPersist ==
    \A i \in Inv :
        ("resolve" \in Range(stages[i]) \/ "user" \in Range(stages[i]))
            => notification_id[i] # NoneId

\* C2: of two invocations in flight at once for the same message key, with the
\* cache answering and no mark expired, at most one passes the dedup gate.
C2_AtMostOnePasses ==
    \A i, j \in Inv :
        (/\ i < j
         /\ redis
         /\ SameKey(i, j)
         /\ i \notin doneBefore[j]
         /\ ~CacheCallRaised(i) /\ ~CacheCallRaised(j)
         /\ now < DEDUP_TTL)
            => ~(PassedDedup(i) /\ PassedDedup(j))

\* C3: a message delivered again after its first delivery returned, whose
\* exists call is answered before the first delivery's mark expires, ends
\* DUPLICATE, calls save_notification not at all and persists nothing.
Redelivered(i, j) ==
    /\ i \in doneBefore[j]
    /\ SameKey(i, j)
    /\ markExpiry[i] > 0
    /\ existsAt[j] >= 0
    /\ existsAt[j] < markExpiry[i]

C3_RedeliverySuppressed ==
    \A i, j \in Inv :
        Redelivered(i, j) =>
            /\ outcome[j] = "DUPLICATE"
            /\ "save" \notin Range(stages[j])
            /\ ~\E n \in notifications : n.inv = j

C3_Witness ==
    \E i, j \in Inv :
        /\ Redelivered(i, j)
        /\ pc[j] = "done"
        /\ \E n \in notifications : n.inv = i

\* C4: no exception leaves process_message: an invocation in which a call
\* raised still returns normally, and so does every invocation.
C4_NoExceptionEscapes ==
    \A i \in Inv :
        /\ returned[i] # "raised"
        /\ (pc[i] = "done" => returned[i] = "normal")
        /\ (raised[i] # {} /\ pc[i] = "done" => returned[i] = "normal")

C4_Witness ==
    \E i, j \in Inv :
        /\ i \in doneBefore[j]
        /\ raised[i] # {}
        /\ returned[i] = "normal"
        /\ outcome[j] = "NOTIFIED"
        /\ pc[j] = "done"

\* C5: once the recipient loop of a fan-out has ended, every recipient of the
\* resolved list was processed in order, whatever failed for an earlier one:
\* its tokens were fetched and, if it has tokens, its send was issued.
LoopEnded(i) == pc[i] \in {"stats", "done"} /\ active_users[i] # <<>>

C5_LaterRecipientsProcessed ==
    \A i \in Inv :
        LoopEnded(i) =>
            /\ Len(visited[i]) = Len(active_users[i])
            /\ \A k \in 1..Len(visited[i]) :
                  /\ visited[i][k].user = active_users[i][k]
                  /\ (visited[i][k].tokens_call = "ok" /\ visited[i][k].tokens > 0
                        => visited[i][k].send # "none")

RecipientFailed(v) ==
    v.tokens_call = "raise" \/ v.log = "raise" \/ (v.send = "gateway" /\ v.success = 0)

C5_Witness ==
    \E i \in Inv :
        /\ LoopEnded(i)
        /\ Len(visited[i]) >= 2
        /\ RecipientFailed(visited[i][1])
        /\ visited[i][2].send = "gateway"

\* C6: every recipient for whom a gateway send was attempted (and whose
\* delivery-log call did not itself fail) has exactly one delivery record for
\* the event, with delivered = (success count > 0).
C6_OneRecordPerAttempt ==
    \A i \in Inv : \A k \in 1..Len(visited[i]) :
        (visited[i][k].send = "gateway" /\ visited[i][k].log # "raise")
            => Cardinality({d \in deliveries :
                                /\ d.notification_id = notification_id[i]
                                /\ d.user_id = visited[i][k].user
                                /\ d.delivered = (visited[i][k].success > 0)}) = 1

\* C7: the stages of a message run in the order gate, detection, dedup,
\* persistence, resolution, fan-out, and the dedup cache is consulted only for
\* a message the detector classified as a gift.
StageRank(call) ==
    CASE call = "gate" -> 1
      [] call = "detect" -> 2
      [] call \in {"exists", "setex"} -> 3
      [] call = "save" -> 4
      [] call = "resolve" -> 5
      [] call = "user" -> 6
      [] OTHER -> 7

C7_StageOrder ==
    \A i \in Inv :
        /\ \A k \in 1..Len(stages[i]) : \A m \in 1..Len(stages[i]) :
              k < m => StageRank(stages[i][k]) <= StageRank(stages[i][m])
        /\ ("exists" \in Range(stages[i]) => detect_gift(msg[i].text).kind = "gift")

\* C8: with the cache layer unavailable (no connection, or an exists/setex call
\* that raised) a message that passed the gate is never suppressed and never
\* fails: it goes on to detection.
CacheUnavailable(i) == ~redis \/ CacheCallRaised(i)

C8_CacheDownMeansNew ==
    \A i \in Inv :
        (PassedGate(i) /\ CacheUnavailable(i)) =>
            /\ outcome[i] # "DUPLICATE"
            /\ returned[i] # "raised"
            /\ (pc[i] = "done" => "detect" \in Range(stages[i]))
            /\ (~redis => "exists" \notin Range(stages[i]))

C8_Witness ==
    \E i \in Inv :
        /\ redis
        /\ CacheCallRaised(i)
        /\ pc[i] = "done"
        /\ \E n \in notifications : n.inv = i

\* C9: the gate accepts a message exactly when its chat matches a registered
\* channel by normalised handle or by numeric chat id.
Registered(chat) ==
    \E k \in 1..Len(monitored_channels) :
        \/ monitored_channels[k].telegram_id = chat.id
        \/ /\ chat.username # NoneStr
           /\ monitored_channels[k].username # NoneStr
           /\ replace_at(monitored_channels[k].username) = replace_at(chat.username)

C9_GateByHandleOrId ==
    /\ \A i \in Inv :
          (pc[i] \notin {"idle", "gate"} /\ "gate" \notin raised[i])
              => (outcome[i] = "GATED_OUT" <=> ~Registered(msg[i].chat))
    /\ \A e \in debug_log :
          e.monitored # "AttributeError" => (e.monitored = "True" <=> Registered(e.chat))

\* C10: a gateway send goes only to users who, when the fan-out resolved its
\* recipients, were subscribed to the event's channel, held a licence that was
\* activated, not expired and not revoked, were not banned and not muted.
C10_OnlyEntitledRecipients ==
    \A i \in Inv : \A k \in 1..Len(visited[i]) :
        visited[i][k].send = "gateway" => visited[i][k].user \in eligibleAtResolve[i]


\* ------------------------------------------------------ detector claims
Called_detect_gift == detect_call # NoDetectCall
DetectedEvent == Called_detect_gift /\ detect_call.result.kind = "gift"
ZeroPercent == <<"0", "%">>
\* The sold-out phrases: the sold-out keywords that are words.
SoldOutPhrases == sold_out_keywords \ {ZeroPercent}
ContainsSoldOutPhrase(text) == \E ph \in SoldOutPhrases : contains(lower(text), ph)

\* C11: an event is flagged sold out exactly when its text holds a sold-out
\* phrase or its availability percentage (given or derived from a fraction)
\* is 0; so "10%" or "50%" alone is not sold out, and a derived 0 is.
C11_SoldOutFlag ==
    DetectedEvent =>
        (detect_call.result.is_sold_out <=>
            \/ ContainsSoldOutPhrase(detect_call.text)
            \/ /\ detect_call.result.has_available_percent
               /\ detect_call.result.available_percent = 0)

\* C12: a gift text that holds "0%" or a sold-out phrase gets urgency 0.0,
\* whatever its limited flag and availability figures.
NamesSoldOut(text) == contains(text, ZeroPercent) \/ ContainsSoldOutPhrase(text)

C12_SoldOutMeansNoUrgency ==
    (DetectedEvent /\ NamesSoldOut(detect_call.text))
        => detect_call.result.urgency_score = 0

C12_Witness ==
    /\ DetectedEvent
    /\ NamesSoldOut(detect_call.text)
    /\ detect_call.result.is_limited
    /\ detect_call.result.has_fraction
    /\ detect_call.result.has_available_percent
    /\ detect_call.result.available_percent > 0
    /\ detect_call.result.urgency_score = 0

\* C13: an event that is not sold out scores min(1.0, 0.3 + 0.3 if limited +
\* tier), the tier being 0.4 below 10 percent, else 0.3 below 25, else 0.2
\* below 50, else 0, and 0 without a percentage; every score is in [0, 1].
C13_Tier(r) ==
    IF ~r.has_available_percent THEN 0
    ELSE IF r.available_percent < 10 THEN 4
    ELSE IF r.available_percent < 25 THEN 3
    ELSE IF r.available_percent < 50 THEN 2
    ELSE 0

C13_UrgencyFormula ==
    DetectedEvent =>
        /\ detect_call.result.urgency_score \in 0..10
        /\ (~detect_call.result.is_sold_out =>
                detect_call.result.urgency_score =
                    min_of(3 + (IF detect_call.result.is_limited THEN 3 ELSE 0)
                             + C13_Tier(detect_call.result), 10))

C13_Witness ==
    /\ DetectedEvent
    /\ ~detect_call.result.is_sold_out
    /\ detect_call.result.is_limited
    /\ detect_call.result.has_available_percent
    /\ detect_call.result.available_percent = 5
    /\ detect_call.result.urgency_score = 10

\* C14: a fraction A/B with B > 0 gives available = B - A, total = B and
\* available_percent = available / total * 100 rounded to the nearest integer.
RoundedPercent(available, total) ==
    IF available >= 0 THEN (200 * available + total) \div (2 * total)
    ELSE -((200 * (-available) + total) \div (2 * total))

FractionParts(text) ==
    LET k == Min(fraction_starts(text))
    IN  [A |-> int(SubSeq(text, k, run_end(text, k))),
         B |-> int(SubSeq(text, denominator_at(text, k),
                          run_end(text, denominator_at(text, k))))]

C14_FractionRounded ==
    (DetectedEvent /\ fraction_starts(detect_call.text) # {}
                   /\ FractionParts(detect_call.text).B > 0)
        => LET f == FractionParts(detect_call.text)
           IN  /\ detect_call.result.has_fraction
               /\ detect_call.result.available = f.B - f.A
               /\ detect_call.result.total = f.B
               /\ detect_call.result.has_available_percent
               /\ detect_call.result.available_percent = RoundedPercent(f.B - f.A, f.B)

\* C15: detect_gift returns None exactly for the texts (the empty one too)
\* that hold no gate keyword in any letter case, and an event for the others.
HoldsIgnoringCase(text, kw) ==
    \E k \in 0..(Len(text) - Len(kw)) :
        \A j \in 1..Len(kw) : LowerChar(text[k + j]) = LowerChar(kw[j])
HoldsGateKeyword(text) == \E kw \in gift_keywords : HoldsIgnoringCase(text, kw)

C16_Scenario(i) ==
    /\ pc[i] = "done"
    /\ msg[i].text = TextGiftAlert
    /\ is_monitored_channel(monitored_channels, channel_username_of(msg[i].chat)) = "True"
    /\ \A j \in Inv \ {i} : pc[j] = "idle" \/ ~SameKey(i, j)
    /\ redis /\ pool /\ push_initialized
    /\ faults = 0
    /\ raised[i] = {}
    /\ Cardinality(entitled(msg[i].chat.id)) = 2
    /\ \A u \in entitled(msg[i].chat.id) : devices[u] = 1
    /\ \A k \in 1..Len(visited[i]) :
          visited[i][k].send = "gateway" => visited[i][k].success = visited[i][k].tokens

C16_EndToEnd ==
    \A i \in Inv :
        C16_Scenario(i) =>
            /\ Cardinality({n \in notifications :
                    n.chat_id = msg[i].chat.id /\ n.msg_id = msg[i].id}) = 1
            /\ \A n \in notifications :
                    (n.chat_id = msg[i].chat.id /\ n.msg_id = msg[i].id)
                        => n.urgency_score = 10
            /\ Len(visited[i]) = 2
            /\ \A k \in 1..Len(visited[i]) : visited[i][k].send = "gateway"
            /\ \A u \in entitled(msg[i].chat.id) :
                    \E d \in deliveries :
                        /\ d.notification_id = notification_id[i]
                        /\ d.user_id = u
                        /\ d.delivered


\* C17: an invocation ends in one terminal outcome and retries nothing: it
\* calls save_notification at most once and every other stage but the
\* recipient loop at most once, gives each recipient at most one send, and no
\* device token of the recipient occurs twice in the gateway batches of it.
Count(seq, x) == Cardinality({k \in 1..Len(seq) : seq[k] = x})
TerminalOutcomes ==
    {"GATED_OUT", "DUPLICATE", "NO_DETECTION", "PERSIST_FAILED", "NOTIFIED", "NOTIFY_SKIPPED"}
BatchTokens(calls) == concat(calls)

TokenSet(tokens) == {tokens[k] : k \in 1..Len(tokens)}

C19_ChunkedOnce ==
    (send_call # NoSendCall /\ push_initialized) =>
        LET sent == BatchTokens(send_call.calls)
        IN  /\ \A k \in 1..Len(send_call.calls) : Len(send_call.calls[k]) \in 1..BATCH_SIZE
            /\ Cardinality(TokenSet(sent)) = Len(sent)
            /\ TokenSet(sent) \subseteq TokenSet(send_call.input)
            /\ (send_call.pc = "returned" /\ ~send_call.raised =>
                    /\ TokenSet(sent) = TokenSet(send_call.input)
                    /\ send_call.result.success + send_call.result.failure
                          = Cardinality(TokenSet(send_call.input)))

C19_Witness ==
    /\ send_call # NoSendCall
    /\ push_initialized
    /\ send_call.pc = "returned"
    /\ ~send_call.raised
    /\ Len(send_call.calls) = 3
    /\ Len(send_call.input) > Cardinality(TokenSet(send_call.input))
    /\ send_call.result.success > 0
    /\ send_call.result.failure > 0

\* C20: a recipient without device tokens gets no gateway call and does not
\* stop the loop; and when nobody was resolved, or no recipient has a token,
\* the fan-out makes no gateway call and the persisted event stays persisted,
\* the outcome being NOTIFY_SKIPPED.
NoTokens(v) == v.tokens_call = "ok" /\ v.tokens = 0
Persisted(i) == \E n \in notifications : n.inv = i /\ n.id = notification_id[i]

C20_NoTokensNoSend ==
    \A i \in Inv :
        /\ \A k \in 1..Len(visited[i]) :
              NoTokens(visited[i][k]) =>
                  /\ visited[i][k].send = "none"
                  /\ visited[i][k].calls = <<>>
                  /\ (pc[i] \in {"stats", "done"} /\ k < Len(active_users[i])
                        => Len(visited[i]) > k)
        /\ (/\ pc[i] = "done"
            /\ "stats" \in Range(stages[i])
            /\ Persisted(i)
            /\ \A k \in 1..Len(visited[i]) : NoTokens(visited[i][k]))
              => /\ \A k \in 1..Len(visited[i]) : visited[i][k].send = "none"
                 /\ outcome[i] = "NOTIFY_SKIPPED"

C20_Witness ==
    \E i \in Inv :
        /\ pc[i] = "done"
        /\ Len(visited[i]) = 2
        /\ NoTokens(visited[i][1])
        /\ visited[i][1].send = "none"
        /\ visited[i][2].send = "gateway"

C20_AllWithoutTokens ==
    \E i \in Inv :
        /\ pc[i] = "done"
        /\ Persisted(i)
        /\ Len(visited[i]) = 2
        /\ \A k \in 1..2 : NoTokens(visited[i][k])
        /\ outcome[i] = "NOTIFY_SKIPPED"


\* C18: processing one message does not block the next: while an invocation
\* waits on a storage call or on a push-gateway call, another message can be
\* received, and another invocation in flight can take its next step.
WaitsOnCall(i) ==
    \/ in_call = i
    \/ backend = "asyncpg" /\ pc[i] \in {"save", "resolve", "stats"}
CanBeReceived(j) == pc[j] = "idle" /\ in_call = 0
CanProgress(j) == pc[j] \notin {"idle", "done"} /\ in_call \in {0, j}

C18_NextMessageNotBlocked ==
    \A i, j \in Inv :
        (i # j /\ WaitsOnCall(i) /\ j <= quota) =>
            /\ (pc[j] = "idle" => CanBeReceived(j))
            /\ (pc[j] \notin {"idle", "done"} => CanProgress(j))

\* The asyncpg storage calls alone yield: the next message is received while
\* the first one waits on its storage call.
C18_StorageYields ==
    \E i, j \in Inv :
        /\ i # j
        /\ backend = "asyncpg"
        /\ pc[i] = "save"
        /\ pc[j] \notin {"idle", "done"}
        /\ doneBefore[j] = {}


\* The gateway call holds the loop under either Database: a second message
\* is in flight and cannot step while the first one is inside send_all.
C18_GatewayHoldsLoop ==
    \E i, j \in Inv :
        /\ i # j
        /\ backend = "asyncpg"
        /\ in_call = i
        /\ pc[i] = "user"
        /\ pc[j] \notin {"idle", "done"}


\* C21: with the push gateway unavailable, the service not initialised or a
\* gateway call raising, send_to_tokens returns instead of raising and sends
\* nothing again: the result is success 0 and failure the number of tokens
\* of the call (the list as given when nothing was initialised, the distinct
\* tokens when a send raised), the raising batch is the last one sent, and
\* the caller logs no delivery for the recipient.
GatewayUnavailable == send_call # NoSendCall /\ (~push_initialized \/ send_call.raised)

C21_UnavailableCountsAllFailed ==
    GatewayUnavailable =>
        /\ send_call.pc = "returned"
        /\ send_call.result.success = 0
        /\ send_call.result.failure =
              IF push_initialized THEN Cardinality(TokenSet(send_call.input))
              ELSE Len(send_call.input)
        /\ ~logs_delivery(send_call.result)
        /\ (~push_initialized => send_call.calls = <<>>)
        /\ Cardinality(TokenSet(BatchTokens(send_call.calls))) = Len(BatchTokens(send_call.calls))
        /\ ~ENABLED SendAll

C21_Witness ==
    /\ GatewayUnavailable
    /\ send_call.raised
    /\ Len(send_call.calls) = 1
    /\ send_call.result = [success |-> 0, failure |-> BATCH_SIZE]
    /\ Len(send_call.input) = BATCH_SIZE + 1


\* C22: at start-up the registry comes from the configured list exactly when
\* the store is down or gave no active channel: then every configured
\* channel that could be resolved is monitored, in the configured order,
\* whatever happened to the others and to the writes back to the store; and
\* when the store gave a channel the registry is the store's list and no
\* configured channel is resolved or written.
Loaded == start_call # NoStartCall /\ start_call.pc \in {"joining", "running"}
StoreGaveNothing == ~start_call.db_up \/ start_call.stored = <<>>
IsResolved(handle) == handle \in start_call.resolved
FromConfig ==
    LET kept == SelectSeq(start_call.config, IsResolved)
    IN  [k \in 1..Len(kept) |-> Channel(get_chat(kept[k]), kept[k])]

C22_FallbackToConfig ==
    Loaded =>
        IF StoreGaveNothing
        THEN /\ start_call.monitored_channels = FromConfig
             /\ start_call.resolved \cup start_call.unresolved = Range(start_call.config)
             /\ start_call.save_failed \subseteq start_call.resolved
        ELSE /\ start_call.monitored_channels = start_call.stored
             /\ start_call.resolved = {}
             /\ start_call.saved = {}

C22_Witness ==
    /\ Loaded
    /\ start_call.pc = "running"
    /\ start_call.db_up
    /\ start_call.stored = <<>>
    /\ start_call.unresolved = {ConfigA}
    /\ start_call.save_failed = {ConfigC}
    /\ start_call.monitored_channels = << Channel(2, ConfigC) >>
    /\ 2 \in start_call.handler_chats.ids


\* C23: a FloodWait of d seconds raised by joining one channel holds back
\* that channel only: every other channel is joined, and the message handler
\* is registered, as early as without it.
JoinsDone == IF start_call = NoStartCall THEN 0 ELSE Len(start_call.join_at)

C23_FloodWaitIsLocal ==
    /\ \A k \in 1..JoinsDone : start_call.join_at[k] = 0
    /\ (start_call # NoStartCall /\ start_call.pc = "running" => start_call.registered_at = 0)

\* Without a FloodWait nothing is delayed.
C23_NoFloodNoDelay ==
    /\ start_call # NoStartCall
    /\ start_call.pc = "running"
    /\ Len(start_call.waits) = 2
    /\ \A k \in 1..2 : start_call.waits[k] = 0
    /\ start_call.registered_at = 0


\* C24: two calls of detect_gift on one text give the same is_limited,
\* is_sold_out, price, available, total, available_percent, urgency_score,
\* emoji and description, whenever they are made; and when the text holds a
\* run of 10 to 20 digits with no word character next to it, both give the
\* first such run as id.
SameButClock(a, b) ==
    /\ a.kind = b.kind
    /\ a.is_limited = b.is_limited
    /\ a.is_sold_out = b.is_sold_out
    /\ a.price = b.price
    /\ a.has_fraction = b.has_fraction
    /\ a.available = b.available
    /\ a.total = b.total
    /\ a.has_available_percent = b.has_available_percent
    /\ a.available_percent = b.available_percent
    /\ a.urgency_score = b.urgency_score
    /\ a.emoji = b.emoji
    /\ a.description = b.description

StandaloneRuns(text) ==
    {r \in {<<a, a + n - 1>> : a \in 1..Len(text), n \in 10..20} :
        /\ r[2] <= Len(text)
        /\ \A k \in r[1]..r[2] : text[k] \in DigitSet
        /\ (r[1] = 1 \/ ~IsWordChar(text[r[1] - 1]))
        /\ (r[2] = Len(text) \/ ~IsWordChar(text[r[2] + 1]))}
FirstOf(runs) == CHOOSE r \in runs : \A q \in runs : r[1] <= q[1]

C24_SameTextSameEvent ==
    LET runs == StandaloneRuns(detect_calls.text)
    IN  \A i, j \in 1..Len(detect_calls.results) :
            LET a == detect_calls.results[i]
                b == detect_calls.results[j]
            IN  /\ SameButClock(a, b)
                /\ (a.kind = "gift" /\ runs # {} =>
                        /\ a.id = SubSeq(detect_calls.text, FirstOf(runs)[1], FirstOf(runs)[2])
                        /\ a.id_timestamp = -1
                        /\ b.id = a.id
                        /\ b.id_timestamp = a.id_timestamp)

C24_Witness ==
    /\ Len(detect_calls.results) = 2
    /\ detect_calls.results[1].kind = "gift"
    /\ detect_calls.results[1].detected_at < detect_calls.results[2].detected_at
    /\ Cardinality(StandaloneRuns(detect_calls.text)) = 2
    /\ detect_calls.results[2].id = LongNumber
    /\ detect_calls.results[2].emoji = "U+1F3C6"

\* Without such a run the two identifiers differ with the clock.
C24_FallbackIdDiffers ==
    /\ Len(detect_calls.results) = 2
    /\ detect_calls.results[1].kind = "gift"
    /\ detect_calls.results[1].id_timestamp # detect_calls.results[2].id_timestamp


\* C25: a dedup mark lasts 3600 seconds and no longer: a redelivery whose
\* exists call comes when the mark of every earlier delivery has run out is not
\* dropped and goes on to mark and detect as a new message; a redelivery that
\* is dropped writes no mark, so that every mark in the cache is the one a
\* message that went through wrote, at most 3600 seconds ahead of the clock.
RedeliveredLate(i, j) ==
    /\ i \in doneBefore[j]
    /\ SameKey(i, j)
    /\ markExpiry[i] > 0
    /\ \A k \in doneBefore[j] : SameKey(k, j) => existsAt[j] >= markExpiry[k]

C25_MarkExpires ==
    /\ \A i, j \in Inv :
          RedeliveredLate(i, j) =>
              /\ outcome[j] # "DUPLICATE"
              /\ pc[j] = "setex" \/ "setex" \in Range(stages[j])
    /\ \A j \in Inv :
          outcome[j] = "DUPLICATE" => markExpiry[j] = 0 /\ "setex" \notin Range(stages[j])
    /\ \A k \in Keys :
          /\ cache[k] <= now + DEDUP_TTL
          /\ (cache[k] # 0 =>
                \E i \in Inv : /\ markExpiry[i] = cache[k]
                               /\ message_key(msg[i]) = k
                               /\ outcome[i] # "DUPLICATE")

C25_Witness ==
    \E i, j \in Inv :
        /\ RedeliveredLate(i, j)
        /\ pc[j] = "done"
        /\ markExpiry[j] = existsAt[j] + DEDUP_TTL
        /\ \E n \in notifications : n.inv = j


\* C26: whenever no message is being processed, the counter
\* total_gifts_detected of every channel is the number of events persisted
\* for that channel.
Quiet == \A i \in Inv : pc[i] \in {"idle", "done"}
EventsOf(t) == {n \in notifications : n.chat_id = t}

C26_CounterMatchesEvents ==
    Quiet => \A t \in ChatIds : channels[t].total = Cardinality(EventsOf(t))


\* C27: the chats whose messages are processed follow the registry: once
\* add_channel succeeded for a channel, the handler lets the messages of that
\* channel through to process_message and the gate accepts them; once
\* remove_channel succeeded for a channel, no message of it delivered
\* afterwards gets past the gate.
LastCallOn(k) ==
    \A m \in (k + 1)..Len(registry_calls) :
        registry_calls[m].success => registry_calls[m].chat # registry_calls[k].chat
GatePassed(j) == pc[j] \notin {"idle", "gate"} /\ outcome[j] # "GATED_OUT" /\ "gate" \notin raised[j]
GateRefused(j) == pc[j] \notin {"idle", "gate"} /\ outcome[j] = "GATED_OUT"

C27_RegistryFollowed ==
    \A k \in 1..Len(registry_calls) :
        LET c == registry_calls[k]
            after == {j \in Inv : j > c.delivered /\ pc[j] # "idle" /\ msg[j].chat.id = c.chat}
        IN  (c.success /\ LastCallOn(k)) =>
                IF c.op = "add"
                THEN /\ \A chat \in Chats : chat.id = c.chat => chat_filter(handler_chats, chat)
                     /\ \A j \in after : ~GateRefused(j)
                ELSE \A j \in after : ~GatePassed(j)

\* remove_channel with the handle as stored does close the gate.
C27_RemovedIsGatedOut ==
    \E k \in 1..Len(registry_calls), j \in Inv :
        /\ registry_calls[k].op = "remove"
        /\ registry_calls[k].success
        /\ j > registry_calls[k].delivered
        /\ msg[j].chat.id = registry_calls[k].chat
        /\ GateRefused(j)


\* ------------------------------------------------------ availability figures
\* C28: every event detect_gift returns has consistent availability figures:
\* a fraction it carries has 0 <= available <= total, and a percentage it
\* carries lies in 0..100, whatever the text was.
C28_AvailabilityConsistent ==
    DetectedEvent =>
        /\ (detect_call.result.has_fraction =>
                /\ 0 <= detect_call.result.available
                /\ detect_call.result.available <= detect_call.result.total)
        /\ (detect_call.result.has_available_percent =>
                detect_call.result.available_percent \in 0..100)

\* A fraction whose first number is the larger one was read.
C28_OverdrawnRead ==
    /\ DetectedEvent
    /\ detect_call.result.has_fraction
    /\ detect_call.result.available < 0
    /\ detect_call.result.available_percent < 0


\* ------------------------------------------------------- the returned counts
\* C29: the success count send_to_tokens returns is the number of messages
\* the gateway accepted over all chunks of the call, also when a later chunk
\* raised after earlier ones were sent, so that the caller logs a delivery
\* for every recipient with a device that was reached.
C29_CountsReflectGateway ==
    (send_call # NoSendCall /\ send_call.pc = "returned") =>
        /\ send_call.result.success = send_call.success_count
        /\ (send_call.success_count > 0 => logs_delivery(send_call.result))

\* A second chunk raised after the gateway accepted the whole first chunk.
C29_LaterChunkRaised ==
    /\ send_call # NoSendCall
    /\ send_call.pc = "returned"
    /\ send_call.raised
    /\ Len(send_call.calls) = 2
    /\ send_call.success_count = BATCH_SIZE
    /\ send_call.result.success = 0


\* ------------------------------------------------------- licence activation
\* C30: a licence key is bound to at most one user, and activation flags a
\* user only when it bound the key to that user: whatever the interleaving
\* of the activation requests, a request answered with success, and a user
\* flagged has_valid_license, belong to the user who owns the key.
Owns(u, k) == licenses[k].user_id = u

C30_OnlyOwnerSucceeds ==
    \A u \in Users :
        /\ (license_calls[u].pc = "done" /\ license_calls[u].success)
              => Owns(u, license_calls[u].key)
        /\ has_valid_license[u] => \E k \in LicenseKeys : Owns(u, k)

\* Two requests for one key were both answered with success.
C30_BothSucceeded ==
    \E u, v \in Users :
        /\ u # v
        /\ license_calls[u].key = license_calls[v].key
        /\ license_calls[u].pc = "done" /\ license_calls[u].success
        /\ license_calls[v].pc = "done" /\ license_calls[v].success
        /\ has_valid_license[u] /\ has_valid_license[v]
====
